---- MODULE Spec2Model ----
(***************************************************************************)
(* Agent orchestration core of the voice agent (services/agent-core):      *)
(* the action validator (tool_router.py, allowlist.py, rate_limiter.py),   *)
(* the conversation state (conversation_manager.py), the planner's         *)
(* post-processing (planner.py) and the turn handlers (grpc_server.py).    *)
(*                                                                         *)
(* A Python str is a sequence of one-character strings, so that substring, *)
(* prefix and glob tests are computed and not assumed.  Time is in seconds.*)
(* An Optional value is <<>> (None) or <<x>>.                              *)
(***************************************************************************)
EXTENDS Integers, Sequences, FiniteSets, TLC

VARIABLES
    now,            \* datetime.utcnow() / the counter store's clock, in seconds
    conversations,  \* ConversationManager.conversations: session_id -> ConversationState
    store,          \* the counter store (Redis): key -> [count, expires_at]
    redis_client,   \* RateLimiter.redis_client: "connected" or "none"
    last,           \* Spec: the handler call that has ended and not been answered yet
    workers,        \* ThreadSpec: worker thread -> position and locals of its handler
    executions,     \* ThreadSpec: the _execute_plan calls so far, in order
    v_in,           \* ValidateSpec: the validation under way (its inputs)
    v_out           \* ValidateSpec: the validations done on v_in's action

vars == <<now, conversations, store, redis_client, last, workers, executions, v_in, v_out>>

None == <<>>
Some(x) == <<x>>

-----------------------------------------------------------------------------
(* Python str operations                                                   *)

RECURSIVE Str_lstrip(_)
Str_lstrip(s) == IF s # <<>> /\ Head(s) = " " THEN Str_lstrip(Tail(s)) ELSE s

RECURSIVE Str_rstrip(_, _)
Str_rstrip(s, ch) ==
    IF s # <<>> /\ s[Len(s)] = ch THEN Str_rstrip(SubSeq(s, 1, Len(s) - 1), ch) ELSE s

Str_strip(s) == Str_rstrip(Str_lstrip(s), " ")

LowerChar(c) ==
    CASE c = "Y" -> "y" [] c = "E" -> "e" [] c = "S" -> "s" [] c = "N" -> "n"
      [] c = "O" -> "o" [] OTHER -> c

Str_lower(s) == [i \in 1..Len(s) |-> LowerChar(s[i])]

Str_startswith(s, p) == Len(p) <= Len(s) /\ SubSeq(s, 1, Len(p)) = p

Str_endswith(s, p) == Len(p) <= Len(s) /\ SubSeq(s, Len(s) - Len(p) + 1, Len(s)) = p

\* `w in s` for two strings
Str_contains(s, w) ==
    \E i \in 1..(Len(s) - Len(w) + 1) : SubSeq(s, i, i + Len(w) - 1) = w

Str_replace(s, old, new) == [i \in 1..Len(s) |-> IF s[i] = old THEN new ELSE s[i]]

-----------------------------------------------------------------------------
(* security/allowlist.py                                                   *)

\* re.match(_glob_to_regex(pattern), value): every character of the pattern is
\* escaped, "*" becomes ".*", the whole is anchored by ^ and $.
RECURSIVE GlobMatch(_, _)
GlobMatch(value, pattern) ==
    IF pattern = <<>> THEN value = <<>>
    ELSE IF Head(pattern) = "*"
         THEN GlobMatch(value, Tail(pattern))
              \/ (value # <<>> /\ GlobMatch(Tail(value), pattern))
         ELSE value # <<>> /\ Head(value) = Head(pattern)
              /\ GlobMatch(Tail(value), Tail(pattern))

\* The working directory Path.resolve() resolves relative paths against.
Cwd == << <<"a", "p", "p">> >>

\* The components of a path string: split on "/", empty and "." components dropped.
RECURSIVE PathParts(_, _)
PathParts(s, cur) ==
    IF s = <<>>
    THEN (IF cur = <<>> \/ cur = <<".">> THEN <<>> ELSE <<cur>>)
    ELSE IF Head(s) = "/"
         THEN (IF cur = <<>> \/ cur = <<".">> THEN <<>> ELSE <<cur>>) \o PathParts(Tail(s), <<>>)
         ELSE PathParts(Tail(s), Append(cur, Head(s)))

\* ".." removes the component before it; at the root it is dropped.
RECURSIVE DropDotDot(_, _)
DropDotDot(parts, acc) ==
    IF parts = <<>> THEN acc
    ELSE IF Head(parts) = <<".", ".">>
         THEN DropDotDot(Tail(parts), IF acc = <<>> THEN <<>> ELSE SubSeq(acc, 1, Len(acc) - 1))
         ELSE DropDotDot(Tail(parts), Append(acc, Head(parts)))

\* Path(s).resolve(): absolute, normalised (no symbolic links in the model).
PathResolve(s) ==
    DropDotDot((IF s # <<>> /\ Head(s) = "/" THEN <<>> ELSE Cwd) \o PathParts(s, <<>>), <<>>)

\* path.relative_to(parent) succeeds
is_subpath(path, parent) ==
    Len(parent) <= Len(path) /\ SubSeq(path, 1, Len(parent)) = parent

matches_pattern(value0, pattern0) ==
    LET value   == Str_replace(value0, "\\", "/")
        pattern == Str_replace(pattern0, "\\", "/")
    IN  \/ value = pattern
        \/ (\E i \in 1..Len(pattern) : pattern[i] = "*") /\ GlobMatch(value, pattern)
        \/ Str_endswith(pattern, <<"/">>) /\ Str_startswith(value, pattern)
        \/ is_subpath(PathResolve(value), PathResolve(Str_rstrip(pattern, "*")))

\* allowlist and blocklist are lists of patterns
is_allowed(value, allowlist) ==
    IF allowlist = <<>> THEN TRUE
    ELSE \E i \in 1..Len(allowlist) : matches_pattern(value, allowlist[i])

is_blocked(value, blocklist) ==
    IF blocklist = <<>> THEN FALSE
    ELSE \E i \in 1..Len(blocklist) : matches_pattern(value, blocklist[i])

-----------------------------------------------------------------------------
(* String literals of the model                                            *)

S_path    == <<"p", "a", "t", "h">>
S_minute  == <<"m", "i", "n", "u", "t", "e">>
S_second  == <<"s", "e", "c", "o", "n", "d">>
S_hour    == <<"h", "o", "u", "r">>
S_day     == <<"d", "a", "y">>
S_3_per_minute == <<"3", "/">> \o S_minute
S_2_per_minute == <<"2", "/">> \o S_minute
S_etc     == <<"/", "e", "t", "c">>
S_etc_passwd == S_etc \o <<"/", "p", "a", "s", "s", "w", "d">>
S_sys     == <<"/", "s", "y", "s">>
S_windows == <<"C", ":", "\\", "W", "i", "n">>
S_ws      == <<".", "/", "w", "s">>
S_ws_file == S_ws \o <<"/", "t", ".", "t", "x", "t">>
S_ws_up_etc == S_ws \o <<"/", ".", ".", "/", ".", ".", "/", ".", ".">> \o S_etc_passwd
S_docs    == <<"~", "/", "D", "o", "c", "s">>
S_tmp_file == <<"/", "t", "m", "p", "/", "x">>
S_https   == <<"h", "t", "t", "p", "s", ":", "/", "/">>
S_url_ok  == S_https \o <<"o", "k", ".", "i", "o">>
S_url_bad == S_https \o <<"b", "a", "d", ".", "i", "o">>
S_url_bad_glob == S_https \o <<"b", "a", "d", "*">>
S_query   == <<"p", "y">>

-----------------------------------------------------------------------------
(* Values of action parameters: str, int and bool (a bool is an int).      *)

StrV(s)  == [t |-> "str", v |-> s]
IntV(n)  == [t |-> "int", v |-> n]
BoolV(b) == [t |-> "bool", v |-> b]

IsStr(x)  == x.t = "str"
IsBool(x) == x.t = "bool"
IsInt(x)  == x.t = "int" \/ x.t = "bool"
AsInt(x)  == IF x.t = "bool" THEN (IF x.v THEN 1 ELSE 0) ELSE x.v
ValEq(a, b) == a.t = b.t /\ a.v = b.v

-----------------------------------------------------------------------------
(* models/tool_action.py: ConfirmationLevel, ToolName, ToolAction          *)

ConfirmationLevels == {"none", "soft", "hard"}

ToolNames == {"web_search", "web_fetch", "browser_navigate", "browser_click",
              "browser_type", "file_read", "file_list", "file_write",
              "system_command"}

ToolAction(tool, params, level) ==
    [tool_name |-> tool, parameters |-> params, confirmation_level |-> level]

\* tool_router.py: level_order
level_order(l) == CASE l = "none" -> 0 [] l = "soft" -> 1 [] l = "hard" -> 2

-----------------------------------------------------------------------------
(* config/tools.yaml as ToolRouter._load_tool_configs indexes it           *)

NoValidation == [pattern |-> None, enum |-> None, min |-> None, max |-> None]

ParamDef(name, type, required, validation) ==
    [name |-> name, type |-> type, required |-> required, validation |-> validation]

ToolConfig(enabled, parameters, level, rate_limit, allowlist, blocklist) ==
    [enabled |-> enabled, parameters |-> parameters, confirmation_level |-> level,
     rate_limit |-> rate_limit, allowlist |-> allowlist, blocklist |-> blocklist]

\* The catalog: web_search (none, 3/minute), browser_navigate (soft, a URL
\* blocklist), file_read (none, path allowlist), file_write (hard, path
\* allowlist and blocklist), system_command (disabled).  The other tools of
\* ToolName have no entry.
tool_configs ==
    [web_search |->
        ToolConfig(TRUE,
            << ParamDef("query", "string", TRUE, NoValidation),
               ParamDef("max_results", "integer", FALSE,
                        [NoValidation EXCEPT !.min = Some(1), !.max = Some(10)]) >>,
            "none", Some(S_3_per_minute), <<>>, <<>>),
     browser_navigate |->
        ToolConfig(TRUE,
            << ParamDef("url", "string", TRUE,
                        [NoValidation EXCEPT !.pattern = Some(S_https)]) >>,
            "soft", None, <<>>, <<S_url_bad_glob>>),
     file_read |->
        ToolConfig(TRUE,
            << ParamDef("path", "string", TRUE, NoValidation) >>,
            "none", None, <<S_docs, S_ws>>, <<>>),
     file_write |->
        ToolConfig(TRUE,
            << ParamDef("path", "string", TRUE, NoValidation),
               ParamDef("content", "string", TRUE, NoValidation),
               ParamDef("overwrite", "boolean", FALSE, NoValidation) >>,
            "hard", Some(S_2_per_minute), <<S_docs, S_ws, S_etc>>, <<S_etc, S_sys, S_windows>>),
     system_command |->
        ToolConfig(FALSE,
            << ParamDef("command", "string", TRUE, NoValidation) >>,
            "hard", None, <<>>, <<>>)]

-----------------------------------------------------------------------------
(* security/rate_limiter.py                                                *)

\* _period_to_seconds: period_map.get(period.lower().strip(), 0)
period_to_seconds(period0) ==
    LET period == Str_strip(Str_lower(period0))
    IN  CASE period = S_second -> 1
          [] period = S_minute -> 60
          [] period = S_hour   -> 3600
          [] period = S_day    -> 86400
          [] OTHER             -> 0

RateKey(user_id, tool_name) == <<user_id, tool_name>>

\* check_rate_limit, step by step: redis_client.get(key) ...
rate_get(st, key) == IF key \in DOMAIN st THEN Some(st[key].count) ELSE None

\* expires_at of a key that carries no TTL (Redis answers TTL with -1)
NoExpiry == -1

\* ... and what follows on the value read: setex(key, period_seconds, 1), a
\* rejection, or incr(key).  INCR of a key that is gone sets it to 1 with no TTL.
rate_decide(st, key, current, limit, period_seconds) ==
    IF current = None
    THEN [allowed |-> TRUE,
          store |-> [k \in DOMAIN st \cup {key} |->
                        IF k = key THEN [count |-> 1, expires_at |-> now + period_seconds]
                        ELSE st[k]]]
    ELSE IF current[1] >= limit THEN [allowed |-> FALSE, store |-> st]
    ELSE [allowed |-> TRUE,
          store |-> IF key \in DOMAIN st THEN [st EXCEPT ![key].count = @ + 1]
                    ELSE [k \in DOMAIN st \cup {key} |->
                             IF k = key THEN [count |-> 1, expires_at |-> NoExpiry]
                             ELSE st[k]]]

\* Mutant of check_rate_limit: a store operation that raises rejects the call,
\* and so does a missing connection.
check_rate_limit_fail_closed(st, client, fault, user_id, tool_name, limit, period) ==
    LET key == RateKey(user_id, tool_name)
        period_seconds == period_to_seconds(period)
    IN  IF client # "connected" THEN [allowed |-> FALSE, store |-> st]
        ELSE IF period_seconds = 0 THEN [allowed |-> TRUE, store |-> st]
        ELSE IF fault THEN [allowed |-> FALSE, store |-> st]
        ELSE IF key \notin DOMAIN st
             THEN [allowed |-> TRUE,
                   store |-> [k \in DOMAIN st \cup {key} |->
                                 IF k = key
                                 THEN [count |-> 1, expires_at |-> now + period_seconds]
                                 ELSE st[k]]]
        ELSE IF st[key].count >= limit THEN [allowed |-> FALSE, store |-> st]
        ELSE [allowed |-> TRUE, store |-> [st EXCEPT ![key].count = @ + 1]]

\* Mutant of check_rate_limit: a counter at its limit rejects only during the
\* first half of its window.
check_rate_limit_half_window(st, client, fault, user_id, tool_name, limit, period) ==
    LET key == RateKey(user_id, tool_name)
        period_seconds == period_to_seconds(period)
    IN  IF client # "connected" THEN [allowed |-> TRUE, store |-> st]
        ELSE IF period_seconds = 0 THEN [allowed |-> TRUE, store |-> st]
        ELSE IF fault THEN [allowed |-> TRUE, store |-> st]
        ELSE IF key \notin DOMAIN st
             THEN [allowed |-> TRUE,
                   store |-> [k \in DOMAIN st \cup {key} |->
                                 IF k = key
                                 THEN [count |-> 1, expires_at |-> now + period_seconds]
                                 ELSE st[k]]]
        ELSE IF st[key].count >= limit
             THEN [allowed |-> 2 * (st[key].expires_at - now) <= period_seconds, store |-> st]
        ELSE [allowed |-> TRUE, store |-> [st EXCEPT ![key].count = @ + 1]]

\* Mutant of check_rate_limit: the count is compared with > instead of >=.
check_rate_limit_off_by_one(st, client, fault, user_id, tool_name, limit, period) ==
    LET key == RateKey(user_id, tool_name)
        period_seconds == period_to_seconds(period)
    IN  IF client # "connected" THEN [allowed |-> TRUE, store |-> st]
        ELSE IF period_seconds = 0 THEN [allowed |-> TRUE, store |-> st]
        ELSE IF fault THEN [allowed |-> TRUE, store |-> st]
        ELSE IF key \notin DOMAIN st
             THEN [allowed |-> TRUE,
                   store |-> [k \in DOMAIN st \cup {key} |->
                                 IF k = key
                                 THEN [count |-> 1, expires_at |-> now + period_seconds]
                                 ELSE st[k]]]
        ELSE IF st[key].count > limit THEN [allowed |-> FALSE, store |-> st]
        ELSE [allowed |-> TRUE, store |-> [st EXCEPT ![key].count = @ + 1]]

\* check_rate_limit on the counter store `st` at time `t`.  `fault` is a store
\* operation raising during the check.  A key is in the store until it expires.
check_rate_limit(st, client, fault, user_id, tool_name, limit, period) ==
    LET key == RateKey(user_id, tool_name)
        period_seconds == period_to_seconds(period)
    IN  IF client # "connected" THEN [allowed |-> TRUE, store |-> st]
        ELSE IF period_seconds = 0 THEN [allowed |-> TRUE, store |-> st]
        ELSE IF fault THEN [allowed |-> TRUE, store |-> st]
        ELSE IF key \notin DOMAIN st
             THEN [allowed |-> TRUE,
                   store |-> [k \in DOMAIN st \cup {key} |->
                                 IF k = key
                                 THEN [count |-> 1, expires_at |-> now + period_seconds]
                                 ELSE st[k]]]
        ELSE IF st[key].count >= limit THEN [allowed |-> FALSE, store |-> st]
        ELSE [allowed |-> TRUE, store |-> [st EXCEPT ![key].count = @ + 1]]

-----------------------------------------------------------------------------
(* pipeline/tool_router.py                                                 *)

Reject(kind, tool, param) == [kind |-> kind, tool |-> tool, param |-> param]

\* str.split(sep) for a one-character separator
RECURSIVE Str_split(_, _, _)
Str_split(s, sep, cur) ==
    IF s = <<>> THEN <<cur>>
    ELSE IF Head(s) = sep THEN <<cur>> \o Str_split(Tail(s), sep, <<>>)
    ELSE Str_split(Tail(s), sep, Append(cur, Head(s)))

Digits == <<"0", "1", "2", "3", "4", "5", "6", "7", "8", "9">>
IsDigit(c) == \E d \in 1..10 : Digits[d] = c
DigitValue(c) == (CHOOSE d \in 1..10 : Digits[d] = c) - 1

RECURSIVE DecimalValue(_, _)
DecimalValue(s, acc) ==
    IF s = <<>> THEN acc ELSE DecimalValue(Tail(s), 10 * acc + DigitValue(Head(s)))

\* int(s) for a string of decimal digits; None where int() raises ValueError
Int_parse(s) ==
    IF s # <<>> /\ \A i \in 1..Len(s) : IsDigit(s[i]) THEN Some(DecimalValue(s, 0)) ELSE None

\* _validate_parameter_value: None, or Some(the rejection)
validate_parameter_value(tool, param_name, value, param_def) ==
    LET param_type == param_def.type
        validation == param_def.validation
    IN  IF param_type = "string" /\ ~IsStr(value)
        THEN Some(Reject("type_string", tool, param_name))
        ELSE IF param_type = "integer" /\ ~IsInt(value)
        THEN Some(Reject("type_integer", tool, param_name))
        ELSE IF param_type = "boolean" /\ ~IsBool(value)
        THEN Some(Reject("type_boolean", tool, param_name))
        \* re.match(pattern, value): the catalog's patterns are literal prefixes
        ELSE IF validation.pattern # None /\ IsStr(value)
                /\ ~Str_startswith(value.v, validation.pattern[1])
        THEN Some(Reject("pattern", tool, param_name))
        ELSE IF validation.enum # None
                /\ ~(\E i \in 1..Len(validation.enum[1]) : ValEq(value, validation.enum[1][i]))
        THEN Some(Reject("enum", tool, param_name))
        ELSE IF param_type = "integer" /\ validation.min # None
                /\ AsInt(value) < validation.min[1]
        THEN Some(Reject("min", tool, param_name))
        ELSE IF param_type = "integer" /\ validation.max # None
                /\ AsInt(value) > validation.max[1]
        THEN Some(Reject("max", tool, param_name))
        ELSE None

\* _validate_parameters: the schema entries in order, from entry i on
RECURSIVE validate_parameters_from(_, _, _)
validate_parameters_from(action, tool_config, i) ==
    IF i > Len(tool_config.parameters) THEN None
    ELSE LET param_def == tool_config.parameters[i]
             param_name == param_def.name
         IN  IF param_def.required /\ param_name \notin DOMAIN action.parameters
             THEN Some(Reject("missing_required", action.tool_name, param_name))
             ELSE IF param_name \in DOMAIN action.parameters
                     /\ validate_parameter_value(action.tool_name, param_name,
                            action.parameters[param_name], param_def) # None
             THEN validate_parameter_value(action.tool_name, param_name,
                            action.parameters[param_name], param_def)
             ELSE validate_parameters_from(action, tool_config, i + 1)

validate_parameters(action, tool_config) == validate_parameters_from(action, tool_config, 1)

\* _check_rate_limit: [error, store].  A rate_limit that does not parse allows.
check_rate_limit_stage(st, client, fault, tool_name, user_id, tool_config) ==
    IF tool_config.rate_limit = None THEN [error |-> None, store |-> st]
    ELSE LET parts == Str_split(tool_config.rate_limit[1], "/", <<>>)
         IN  IF Len(parts) # 2 \/ Int_parse(parts[1]) = None
             THEN [error |-> None, store |-> st]
             ELSE LET r == check_rate_limit(st, client, fault, user_id, tool_name,
                                            Int_parse(parts[1])[1], parts[2])
                  IN  [error |-> IF r.allowed THEN None
                                 ELSE Some(Reject("rate_limit", tool_name, "")),
                       store |-> r.store]

\* The limit and the period of a tool's rate_limit, as _check_rate_limit parses it
RateLimitOf(tool) ==
    Int_parse(Str_split(tool_configs[tool].rate_limit[1], "/", <<>>)[1])[1]
RatePeriodOf(tool) ==
    period_to_seconds(Str_split(tool_configs[tool].rate_limit[1], "/", <<>>)[2])

sensitive_params == <<"path", "url", "command", "selector">>

\* _validate_security_policies, from sensitive parameter i on: [error, raised].
\* A value that is no str makes value.replace raise in _matches_pattern.
RECURSIVE validate_security_policies_from(_, _, _)
validate_security_policies_from(action, tool_config, i) ==
    IF i > Len(sensitive_params) THEN [error |-> None, raised |-> FALSE]
    ELSE LET param_name == sensitive_params[i]
             allowlist == tool_config.allowlist
             blocklist == tool_config.blocklist
         IN  IF param_name \notin DOMAIN action.parameters
             THEN validate_security_policies_from(action, tool_config, i + 1)
             ELSE LET param_value == action.parameters[param_name]
                  IN  IF blocklist # <<>> /\ ~IsStr(param_value)
                      THEN [error |-> None, raised |-> TRUE]
                      ELSE IF blocklist # <<>> /\ is_blocked(param_value.v, blocklist)
                      THEN [error |-> Some(Reject("blocked", action.tool_name, param_name)),
                            raised |-> FALSE]
                      ELSE IF allowlist # <<>> /\ ~IsStr(param_value)
                      THEN [error |-> None, raised |-> TRUE]
                      ELSE IF allowlist # <<>> /\ ~is_allowed(param_value.v, allowlist)
                      THEN [error |-> Some(Reject("not_in_allowlist", action.tool_name, param_name)),
                            raised |-> FALSE]
                      ELSE validate_security_policies_from(action, tool_config, i + 1)

\* Mutant of validate_security_policies: a value on the allowlist is accepted
\* before the blocklist is consulted.
validate_security_policies_allow_first(action, tool_config) ==
    IF \E i \in 1..Len(sensitive_params) :
           /\ sensitive_params[i] \in DOMAIN action.parameters
           /\ IsStr(action.parameters[sensitive_params[i]])
           /\ tool_config.allowlist # <<>>
           /\ is_allowed(action.parameters[sensitive_params[i]].v, tool_config.allowlist)
    THEN [error |-> None, raised |-> FALSE]
    ELSE validate_security_policies_from(action, tool_config, 1)

validate_security_policies(action, tool_config) ==
    validate_security_policies_from(action, tool_config, 1)

\* Mutant of validate_confirmation_level: the level is set to the policy's level
\* whenever the two differ.
validate_confirmation_level_assign(action, tool_config) ==
    IF tool_config.confirmation_level \in ConfirmationLevels
    THEN [action EXCEPT !.confirmation_level = tool_config.confirmation_level]
    ELSE [action EXCEPT !.confirmation_level = "none"]

\* _validate_confirmation_level: the action as the call leaves it (it always accepts).
\* ConfirmationLevel(required_level) raising ValueError gives NONE.
validate_confirmation_level(action, tool_config) ==
    LET required == IF tool_config.confirmation_level \in ConfirmationLevels
                    THEN tool_config.confirmation_level ELSE "none"
    IN  IF level_order(action.confirmation_level) < level_order(required)
        THEN [action EXCEPT !.confirmation_level = required]
        ELSE action

\* validate_action: the verdict (ok, error), the action and the counter store as
\* the call leaves them, and whether the call raised instead of returning.
Verdict(ok, error, action, st, raised) ==
    [ok |-> ok, error |-> error, action |-> action, store |-> st, raised |-> raised]

\* Mutant of validate_stages: the rate limit is checked before the parameters.
validate_stages_rate_first(action, tool_config, st, p, r, s) ==
    IF r.error # None THEN Verdict(FALSE, r.error, action, r.store, FALSE)
    ELSE IF p # None THEN Verdict(FALSE, p, action, r.store, FALSE)
    ELSE IF s.raised THEN Verdict(FALSE, None, action, r.store, TRUE)
    ELSE IF s.error # None THEN Verdict(FALSE, s.error, action, r.store, FALSE)
    ELSE Verdict(TRUE, None, validate_confirmation_level(action, tool_config),
                 r.store, FALSE)

\* Mutant of validate_stages: an action the allow/block stage rejects gives
\* its quota back.
validate_stages_refund(action, tool_config, st, p, r, s) ==
    IF p # None THEN Verdict(FALSE, p, action, st, FALSE)
    ELSE IF r.error # None THEN Verdict(FALSE, r.error, action, r.store, FALSE)
    ELSE IF s.raised THEN Verdict(FALSE, None, action, r.store, TRUE)
    ELSE IF s.error # None THEN Verdict(FALSE, s.error, action, st, FALSE)
    ELSE Verdict(TRUE, None, validate_confirmation_level(action, tool_config),
                 r.store, FALSE)

\* validate_action from the parameter stage on: p, r and s are what the
\* parameter, rate-limit and allow/block stages return
validate_stages(action, tool_config, st, p, r, s) ==
    IF p # None THEN Verdict(FALSE, p, action, st, FALSE)
    ELSE IF r.error # None THEN Verdict(FALSE, r.error, action, r.store, FALSE)
    ELSE IF s.raised THEN Verdict(FALSE, None, action, r.store, TRUE)
    ELSE IF s.error # None THEN Verdict(FALSE, s.error, action, r.store, FALSE)
    ELSE Verdict(TRUE, None, validate_confirmation_level(action, tool_config),
                 r.store, FALSE)

\* _load_tool_configs: the catalog indexed by tool name, or {} when the document
\* is absent (no file) or unreadable (open, yaml.safe_load or the indexing raises)
load_tool_configs(document) ==
    IF document = "loaded" THEN tool_configs ELSE [t \in {} |-> None]

\* Mutant of validate_action_in: the enabled flag is not consulted.
validate_action_in_skip_enabled(configs, action, user_id, st, client, fault) ==
    IF action.tool_name \notin DOMAIN configs
    THEN Verdict(FALSE, Some(Reject("not_found", action.tool_name, "")), action, st, FALSE)
    ELSE validate_stages(action, configs[action.tool_name], st,
             validate_parameters(action, configs[action.tool_name]),
             check_rate_limit_stage(st, client, fault, action.tool_name, user_id,
                                    configs[action.tool_name]),
             validate_security_policies(action, configs[action.tool_name]))

\* validate_action of a ToolRouter whose tool_configs is `configs`
validate_action_in(configs, action, user_id, st, client, fault) ==
    IF action.tool_name \notin DOMAIN configs
    THEN Verdict(FALSE, Some(Reject("not_found", action.tool_name, "")), action, st, FALSE)
    ELSE IF ~configs[action.tool_name].enabled
    THEN Verdict(FALSE, Some(Reject("disabled", action.tool_name, "")), action, st, FALSE)
    ELSE validate_stages(action, configs[action.tool_name], st,
             validate_parameters(action, configs[action.tool_name]),
             check_rate_limit_stage(st, client, fault, action.tool_name, user_id,
                                    configs[action.tool_name]),
             validate_security_policies(action, configs[action.tool_name]))

\* validate_action with the catalog loaded
validate_action(action, user_id, st, client, fault) ==
    validate_action_in(tool_configs, action, user_id, st, client, fault)

-----------------------------------------------------------------------------
(* models/conversation.py: Message, ConversationState                      *)

\* A message's own timestamp is read by no operation and is left out.
Message(role, content, plan) == [role |-> role, content |-> content, plan |-> plan]

\* A dict without keys
EmptyDict == [k \in {} |-> None]

ConversationState(session_id, user_id) ==
    [session_id |-> session_id, user_id |-> user_id, messages |-> <<>>,
     pending_confirmation |-> None, last_activity |-> now,
     user_preferences |-> EmptyDict, current_task |-> None]

\* ConversationState.get_recent_context(max_messages): the last max_messages
\* messages, oldest first
get_recent_context(conversation, max_messages) ==
    IF Len(conversation.messages) <= max_messages THEN conversation.messages
    ELSE SubSeq(conversation.messages, Len(conversation.messages) - max_messages + 1,
                Len(conversation.messages))

\* Mutant of add_message: the new message is put in front of the history.
add_message_prepends(conversation, message) ==
    [conversation EXCEPT !.messages = <<message>> \o @, !.last_activity = now]

\* ConversationState.add_message: append, and the session has been active now
add_message(conversation, message) ==
    [conversation EXCEPT !.messages = Append(@, message), !.last_activity = now]

\* ConversationState.clear_pending_confirmations
clear_pending_confirmations(conversation) ==
    [conversation EXCEPT !.pending_confirmation = None]

\* ConversationState.is_expired(timeout)
is_expired(conversation, timeout) == now - conversation.last_activity > timeout

-----------------------------------------------------------------------------
(* models/tool_action.py: AgentPlan                                        *)

AgentPlan(actions, needs_user_confirmation) ==
    [actions |-> actions, needs_user_confirmation |-> needs_user_confirmation]

\* AgentPlan.has_destructive_actions: an action of the plan is HARD
has_destructive_actions(plan) ==
    \E i \in 1..Len(plan.actions) : plan.actions[i].confirmation_level = "hard"

\* AgentPlan.get_actions_requiring_confirmation
get_actions_requiring_confirmation(plan) ==
    SelectSeq(plan.actions, LAMBDA a : a.confirmation_level # "none")

\* plan.dict(): the plan as nested dicts, an action as the tuple of its items
plan_dict(plan) ==
    << [i \in 1..Len(plan.actions) |->
           << plan.actions[i].tool_name, plan.actions[i].parameters,
              plan.actions[i].confirmation_level >>],
       plan.needs_user_confirmation >>

\* AgentPlan(**plan_data)
AgentPlan_from_dict(plan_data) ==
    AgentPlan([i \in 1..Len(plan_data[1]) |->
                  ToolAction(plan_data[1][i][1], plan_data[1][i][2], plan_data[1][i][3])],
              plan_data[2])

\* datetime.isoformat() and datetime.fromisoformat(): minutes and seconds
isoformat(t) == <<t \div 60, t % 60>>
fromisoformat(s) == s[1] * 60 + s[2]

-----------------------------------------------------------------------------
(* pipeline/conversation_manager.py: operations on the conversations dict  *)

conversation_timeout == 1800
pending_window == 300

\* Mutant of _cleanup_expired_conversations: a session is removed once it has
\* been idle for longer than the pending window.
cleanup_expired_conversations_early(convs) ==
    [s \in {s \in DOMAIN convs : ~is_expired(convs[s], pending_window)} |-> convs[s]]

\* _cleanup_expired_conversations
cleanup_expired_conversations(convs) ==
    [s \in {s \in DOMAIN convs : ~is_expired(convs[s], conversation_timeout)} |-> convs[s]]

\* get_or_create_conversation: the dict after the call
get_or_create_conversation(convs, session_id, user_id) ==
    LET c == cleanup_expired_conversations(convs)
    IN  IF session_id \in DOMAIN c THEN c
        ELSE [s \in DOMAIN c \cup {session_id} |->
                 IF s = session_id THEN ConversationState(session_id, user_id) ELSE c[s]]

add_user_message(convs, session_id, user_id, content) ==
    LET c == get_or_create_conversation(convs, session_id, user_id)
    IN  [c EXCEPT ![session_id] = add_message(@, Message("user", content, None))]

\* add_assistant_message: the tools of the plan's actions go into the message's
\* metadata (of their parameters and reasoning the model keeps nothing there)
add_assistant_message(convs, session_id, user_id, content, plan) ==
    LET c == get_or_create_conversation(convs, session_id, user_id)
        meta == IF plan = None THEN None
                ELSE Some([i \in 1..Len(plan[1].actions) |-> plan[1].actions[i].tool_name])
    IN  [c EXCEPT ![session_id] = add_message(@, Message("assistant", content, meta))]

\* set_pending_confirmation: the slot is assigned, whatever it held
set_pending_confirmation(convs, session_id, user_id, plan) ==
    LET c == get_or_create_conversation(convs, session_id, user_id)
    IN  [c EXCEPT ![session_id].pending_confirmation =
            Some([plan |-> plan_dict(plan), timestamp |-> isoformat(now)])]

\* Mutant of get_pending_confirmation: nothing is ever found pending.
get_pending_confirmation_forgets(convs, session_id) == [plan |-> None, convs |-> convs]

\* Mutant of get_pending_confirmation: a parked plan is returned whatever its age.
get_pending_confirmation_no_expiry(convs, session_id) ==
    IF session_id \notin DOMAIN convs THEN [plan |-> None, convs |-> convs]
    ELSE IF convs[session_id].pending_confirmation = None
    THEN [plan |-> None, convs |-> convs]
    ELSE [plan |-> Some(AgentPlan_from_dict(convs[session_id].pending_confirmation[1].plan)),
          convs |-> convs]

\* Mutant of get_pending_confirmation: a parked plan expires after twice the
\* window.
get_pending_confirmation_late(convs, session_id) ==
    IF session_id \notin DOMAIN convs THEN [plan |-> None, convs |-> convs]
    ELSE IF convs[session_id].pending_confirmation = None
    THEN [plan |-> None, convs |-> convs]
    ELSE IF now - fromisoformat(convs[session_id].pending_confirmation[1].timestamp)
               > 2 * pending_window
    THEN [plan |-> None,
          convs |-> [convs EXCEPT ![session_id] = clear_pending_confirmations(@)]]
    ELSE [plan |-> Some(AgentPlan_from_dict(convs[session_id].pending_confirmation[1].plan)),
          convs |-> convs]

\* get_pending_confirmation: what it returns and the dict after the call
get_pending_confirmation(convs, session_id) ==
    IF session_id \notin DOMAIN convs THEN [plan |-> None, convs |-> convs]
    ELSE IF convs[session_id].pending_confirmation = None
    THEN [plan |-> None, convs |-> convs]
    ELSE LET pending == convs[session_id].pending_confirmation[1]
             timestamp == fromisoformat(pending.timestamp)
         IN  IF now - timestamp > pending_window
             THEN [plan |-> None,
                   convs |-> [convs EXCEPT ![session_id] = clear_pending_confirmations(@)]]
             ELSE [plan |-> Some(AgentPlan_from_dict(pending.plan)), convs |-> convs]

\* What may fail when the stored snapshot is read back: datetime.fromisoformat
\* on its timestamp, AgentPlan(**plan_data) on its plan
Unreadable == {"timestamp", "plan"}

\* get_pending_confirmation when reading the snapshot back may raise: the
\* except clause returns None and leaves the slot as it is
get_pending_confirmation_read(convs, session_id, unreadable) ==
    IF session_id \notin DOMAIN convs THEN [plan |-> None, convs |-> convs]
    ELSE IF convs[session_id].pending_confirmation = None
    THEN [plan |-> None, convs |-> convs]
    ELSE IF unreadable = "timestamp" THEN [plan |-> None, convs |-> convs]
    ELSE IF now - fromisoformat(convs[session_id].pending_confirmation[1].timestamp)
               > pending_window
    THEN [plan |-> None,
          convs |-> [convs EXCEPT ![session_id] = clear_pending_confirmations(@)]]
    ELSE IF unreadable = "plan" THEN [plan |-> None, convs |-> convs]
    ELSE get_pending_confirmation(convs, session_id)

\* Mutant of clear_pending_confirmation: only a plan that has expired is cleared.
clear_pending_confirmation_if_expired(convs, session_id) ==
    get_pending_confirmation(convs, session_id).convs

\* Mutant of clear_pending_confirmation: the call does nothing.
clear_pending_confirmation_noop(convs, session_id) == convs

clear_pending_confirmation(convs, session_id) ==
    IF session_id \in DOMAIN convs
    THEN [convs EXCEPT ![session_id] = clear_pending_confirmations(@)]
    ELSE convs

\* Mutant of end_conversation: the session is emptied and stays in the dict.
end_conversation_resets(convs, session_id) ==
    IF session_id \in DOMAIN convs
    THEN [convs EXCEPT ![session_id] = [@ EXCEPT !.messages = <<>>,
                                                 !.pending_confirmation = None]]
    ELSE convs

end_conversation(convs, session_id) ==
    [s \in DOMAIN convs \ {session_id} |-> convs[s]]

\* get_context's max_messages
context_messages == 10

\* get_context: the ConversationContext returned and the dict after the call
get_context(convs, session_id, user_id) ==
    LET c == get_or_create_conversation(convs, session_id, user_id)
    IN  [context |-> [session_id |-> session_id, user_id |-> user_id,
                      conversation_history |->
                          get_recent_context(c[session_id], context_messages),
                      user_preferences |-> c[session_id].user_preferences,
                      current_task |-> c[session_id].current_task],
         convs |-> c]

\* dict.update
dict_update(d, other) ==
    [k \in DOMAIN d \cup DOMAIN other |-> IF k \in DOMAIN other THEN other[k] ELSE d[k]]

update_user_preferences(convs, session_id, preferences) ==
    IF session_id \in DOMAIN convs
    THEN [convs EXCEPT ![session_id].user_preferences = dict_update(@, preferences)]
    ELSE convs

set_current_task(convs, session_id, task) ==
    IF session_id \in DOMAIN convs
    THEN [convs EXCEPT ![session_id].current_task = task]
    ELSE convs

-----------------------------------------------------------------------------
(* pipeline/planner.py: what create_plan does with the model's proposal    *)

max_actions == 5

\* A proposed action as the model returns it: the tool name, the parameters
\* and the confirmation level (None where the key is absent).
RawAction(tool, params, level) == [tool |-> tool, parameters |-> params, level |-> level]

\* _parse_action: None for a tool name that is no ToolName
parse_action(action_data) ==
    IF action_data.tool \notin ToolNames THEN None
    ELSE LET confirmation_str == IF action_data.level = None THEN "soft"
                                 ELSE action_data.level[1]
         IN  Some(ToolAction(action_data.tool, action_data.parameters,
                             IF confirmation_str \in ConfirmationLevels
                             THEN confirmation_str ELSE "soft"))

\* Mutant of parse_actions: one proposal with an unknown tool name rejects the
\* whole answer.
parse_actions_wholesale(actions_data) ==
    IF \E i \in 1..Len(actions_data) : parse_action(actions_data[i]) = None THEN <<>>
    ELSE [i \in 1..Len(actions_data) |-> parse_action(actions_data[i])[1]]

RECURSIVE parse_actions(_)
parse_actions(actions_data) ==
    IF actions_data = <<>> THEN <<>>
    ELSE parse_action(Head(actions_data)) \o parse_actions(Tail(actions_data))

\* Mutant of requires_confirmation: only a HARD action asks for a confirmation.
requires_confirmation_hard_only(actions) ==
    \E i \in 1..Len(actions) : actions[i].confirmation_level = "hard"

\* _requires_confirmation
requires_confirmation(actions) ==
    \E i \in 1..Len(actions) : actions[i].confirmation_level \in {"soft", "hard"}

\* Mutant of create_plan: the proposal is not truncated.
create_plan_untruncated(actions_data0, needs_confirmation, failed) ==
    IF failed THEN AgentPlan(<<>>, FALSE)
    ELSE AgentPlan(parse_actions(actions_data0),
                   needs_confirmation \/ requires_confirmation(parse_actions(actions_data0)))

\* Mutant of create_plan: the proposal is parsed first and the parsed actions
\* are truncated.
create_plan_parse_first(actions_data0, needs_confirmation, failed) ==
    IF failed THEN AgentPlan(<<>>, FALSE)
    ELSE LET parsed == parse_actions(actions_data0)
             actions == IF Len(parsed) > max_actions
                        THEN SubSeq(parsed, 1, max_actions) ELSE parsed
         IN  AgentPlan(actions, needs_confirmation \/ requires_confirmation(actions))

\* create_plan on the proposal the model returned; `failed` is generate_plan
\* or json.loads raising
create_plan(actions_data0, needs_confirmation, failed) ==
    IF failed THEN AgentPlan(<<>>, FALSE)
    ELSE LET actions_data == IF Len(actions_data0) > max_actions
                             THEN SubSeq(actions_data0, 1, max_actions)
                             ELSE actions_data0
             actions == parse_actions(actions_data)
         IN  AgentPlan(actions, needs_confirmation \/ requires_confirmation(actions))

\* Confidences are counted in millionths: 1000000 is 1.0
ConfidenceUnit == 1000000

HardCount(actions) == Cardinality({i \in 1..Len(actions) : actions[i].confirmation_level = "hard"})

Max(a, b) == IF a >= b THEN a ELSE b
Min(a, b) == IF a <= b THEN a ELSE b

\* _calculate_confidence, intent_confidence being intent.confidence
calculate_confidence(actions, intent_confidence) ==
    IF actions = <<>> THEN 0
    ELSE LET c0 == intent_confidence
             c1 == IF Len(actions) > 3 THEN (c0 * 9) \div 10 ELSE c0
             c2 == IF Len(actions) > 4 THEN (c1 * 85) \div 100 ELSE c1
             c3 == IF HardCount(actions) > 0
                   THEN (c2 * Max(7, 10 - HardCount(actions))) \div 10
                   ELSE c2
         IN  Min(ConfidenceUnit, Max(0, c3))

\* The confidence field of the plan create_plan returns
create_plan_confidence(actions_data0, needs_confirmation, failed, intent_confidence) ==
    IF failed THEN 0
    ELSE calculate_confidence(create_plan(actions_data0, needs_confirmation, failed).actions,
                              intent_confidence)

-----------------------------------------------------------------------------
(* grpc_server.py: AgentServicer                                           *)


\* _handle_confirmation_response: the keyword lists
affirmative ==
    << <<"y", "e", "s">>,
       <<"y">>,
       <<"o", "k">>,
       <<"s", "u", "r", "e">>,
       <<"p", "r", "o", "c", "e", "e", "d">>,
       <<"g", "o", " ", "a", "h", "e", "a", "d">>,
       <<"c", "o", "n", "f", "i", "r", "m">> >>
negative ==
    << <<"n", "o">>,
       <<"n">>,
       <<"c", "a", "n", "c", "e", "l">>,
       <<"s", "t", "o", "p">>,
       <<"a", "b", "o", "r", "t">> >>

\* any(word in user_input_lower for word in words)
any_word_in(words, user_input_lower) ==
    \E i \in 1..Len(words) : Str_contains(user_input_lower, words[i])

\* Mutant of reply_kind: the negative keywords are tested first.
reply_kind_negative_first(user_input) ==
    LET user_input_lower == Str_strip(Str_lower(user_input))
    IN  IF any_word_in(negative, user_input_lower) THEN "negative"
        ELSE IF any_word_in(affirmative, user_input_lower) THEN "affirmative"
        ELSE "ambiguous"

\* _handle_confirmation_response: the branch a reply takes
reply_kind(user_input) ==
    LET user_input_lower == Str_strip(Str_lower(user_input))
    IN  IF any_word_in(affirmative, user_input_lower) THEN "affirmative"
        ELSE IF any_word_in(negative, user_input_lower) THEN "negative"
        ELSE "ambiguous"

\* tool_router.py: route_action
route_action(action) ==
    IF action.tool_name \in {"web_search", "web_fetch", "browser_navigate",
                             "browser_click", "browser_type"}
    THEN "web-service" ELSE "tool-executor"

S_text == <<"t", "e", "x", "t">>

\* parameters.get(key, default)
dict_get(parameters, key, default) ==
    IF key \in DOMAIN parameters THEN parameters[key] ELSE default

\* _execute_web_action / _execute_tool_action: the call sent to the service
service_call(action) ==
    CASE action.tool_name = "web_search" ->
           [method |-> "web_search",
            args |-> [query |-> dict_get(action.parameters, "query", StrV(<<>>)),
                      max_results |-> dict_get(action.parameters, "max_results", IntV(5))]]
      [] action.tool_name = "web_fetch" ->
           [method |-> "web_fetch",
            args |-> [url |-> dict_get(action.parameters, "url", StrV(<<>>)),
                      extract_type |-> dict_get(action.parameters, "extract_type",
                                                StrV(S_text))]]
      [] route_action(action) = "web-service" ->
           [method |-> "browser_action", args |-> action.parameters]
      [] OTHER ->
           [method |-> "execute_tool", args |-> action.parameters]

Dispatch(action) ==
    [service |-> route_action(action), action |-> action, call |-> service_call(action)]

ToolActionResult(tool_name, success) == [tool_name |-> tool_name, success |-> success]

\* Mutant of execute_plan: the loop ends at the first action that fails.
execute_plan_stops_at_failure(plan, sink_ok) ==
    LET n == IF \E i \in 1..Len(plan.actions) : ~sink_ok[i]
             THEN CHOOSE i \in 1..Len(plan.actions) :
                      ~sink_ok[i] /\ \A j \in 1..(i - 1) : sink_ok[j]
             ELSE Len(plan.actions)
    IN  [dispatched |-> [i \in 1..n |-> Dispatch(plan.actions[i])],
         results    |-> [i \in 1..n |-> ToolActionResult(plan.actions[i].tool_name,
                                                          sink_ok[i])]]

\* What a service does with one call: it answers success, answers failure,
\* answers without a success flag, or the call raises (the service is down)
SinkAnswers == {"ok", "failure", "no_flag", "raises"}

\* _execute_web_action / _execute_tool_action: result.get("success", False), and
\* False from the except clause
action_success(answer) == answer = "ok"

\* Mutant of execute_plan: the actions are sent last first.
execute_plan_reversed(plan, sink_ok) ==
    [dispatched |-> [i \in 1..Len(plan.actions) |->
                        Dispatch(plan.actions[Len(plan.actions) + 1 - i])],
     results    |-> [i \in 1..Len(plan.actions) |->
                        ToolActionResult(plan.actions[Len(plan.actions) + 1 - i].tool_name,
                                         sink_ok[i])]]

\* _execute_plan: every action of the plan is sent to its service, in order;
\* sink_ok[i] is whether the service answered the i-th call with success.
execute_plan(plan, sink_ok) ==
    [dispatched |-> [i \in 1..Len(plan.actions) |-> Dispatch(plan.actions[i])],
     results    |-> [i \in 1..Len(plan.actions) |->
                        ToolActionResult(plan.actions[i].tool_name, sink_ok[i])]]

\* The `error` of the response ProcessRequest's except clause returns ("Error
\* processing request: " and str(e)), in the shape of the error list
ExceptionDetail == << [tool |-> "", error |-> Reject("exception", "", "")] >>

\* _create_response and the dict ConfirmAction returns
Response(success, kind, error, plan, results, needs_confirmation) ==
    [success |-> success, response |-> kind, error |-> error, plan |-> plan,
     action_results |-> results, needs_confirmation |-> needs_confirmation]

\* What a handler leaves: the conversations, the counter store, the calls it
\* sent, its response, the plan it made (after validation), whether it ended
\* in its except clause and the validation errors it had collected.
Turn(convs, st, dispatched, response, plan, raised) ==
    [convs |-> convs, store |-> st, dispatched |-> dispatched, response |-> response,
     plan |-> plan, raised |-> raised, validation_errors |-> <<>>]

\* Mutant of confirm_outcome: with nothing pending, the answer is added to the
\* history of the session.
confirm_outcome_says_so(st, session_id, user_id, confirmed, sink_ok, g) ==
    IF g.plan = None
    THEN Turn(add_assistant_message(g.convs, session_id, user_id, "no_pending", None),
              st, <<>>, Response(FALSE, "no_pending", <<>>, None, <<>>, FALSE),
              None, FALSE)
    ELSE IF ~confirmed
    THEN Turn(add_assistant_message(clear_pending_confirmation(g.convs, session_id),
                                    session_id, user_id, "cancelled", None),
              st, <<>>, Response(TRUE, "cancelled", <<>>, None, <<>>, FALSE),
              None, FALSE)
    ELSE Turn(add_assistant_message(clear_pending_confirmation(g.convs, session_id),
                                    session_id, user_id, "synthesized", g.plan),
              st, execute_plan(g.plan[1], sink_ok).dispatched,
              Response(TRUE, "synthesized", <<>>, None,
                       execute_plan(g.plan[1], sink_ok).results, FALSE),
              None, FALSE)

\* ConfirmAction once get_pending_confirmation has returned g
confirm_outcome(st, session_id, user_id, confirmed, sink_ok, g) ==
    IF g.plan = None
    THEN Turn(g.convs, st, <<>>,
              Response(FALSE, "no_pending", <<>>, None, <<>>, FALSE), None, FALSE)
    ELSE IF ~confirmed
    THEN Turn(add_assistant_message(clear_pending_confirmation(g.convs, session_id),
                                    session_id, user_id, "cancelled", None),
              st, <<>>, Response(TRUE, "cancelled", <<>>, None, <<>>, FALSE),
              None, FALSE)
    ELSE Turn(add_assistant_message(clear_pending_confirmation(g.convs, session_id),
                                    session_id, user_id, "synthesized", g.plan),
              st, execute_plan(g.plan[1], sink_ok).dispatched,
              Response(TRUE, "synthesized", <<>>, None,
                       execute_plan(g.plan[1], sink_ok).results, FALSE),
              None, FALSE)

\* ConfirmAction
confirm_action(convs, st, session_id, user_id, confirmed, sink_ok) ==
    confirm_outcome(st, session_id, user_id, confirmed, sink_ok,
                    get_pending_confirmation(convs, session_id))

\* _handle_confirmation_response
handle_confirmation_response(convs, st, session_id, user_id, user_input, sink_ok) ==
    IF reply_kind(user_input) = "affirmative"
    THEN confirm_action(convs, st, session_id, user_id, TRUE, sink_ok)
    ELSE IF reply_kind(user_input) = "negative"
    THEN confirm_action(convs, st, session_id, user_id, FALSE, sink_ok)
    ELSE Turn(convs, st, <<>>, Response(TRUE, "reprompt", <<>>, None, <<>>, FALSE),
              None, FALSE)

\* ProcessRequest, the validation loop: validate_action on every action of the
\* plan in order, each call on the counter store the call before left.  A
\* rejection is collected and the loop goes on; a call that raises ends it.
\* validate_step is one pass of the loop, v what validate_action returned.
validate_step(actions, i, validation_errors, v) ==
    [actions |-> [actions EXCEPT ![i] = v.action],
     validation_errors |-> IF v.ok \/ v.raised THEN validation_errors
                           ELSE Append(validation_errors,
                                       [tool |-> actions[i].tool_name,
                                        error |-> v.error[1]]),
     store |-> v.store, raised |-> v.raised]

RECURSIVE validate_actions(_, _, _, _, _, _, _)
RECURSIVE validate_rest(_, _, _, _, _)
validate_rest(i, user_id, client, fault, acc) ==
    IF acc.raised THEN acc
    ELSE validate_actions(acc.actions, i + 1, user_id, acc.store, client, fault,
                          acc.validation_errors)

validate_actions(actions, i, user_id, st, client, fault, validation_errors) ==
    IF i > Len(actions)
    THEN [actions |-> actions, validation_errors |-> validation_errors,
          store |-> st, raised |-> FALSE]
    ELSE validate_rest(i, user_id, client, fault,
             validate_step(actions, i, validation_errors,
                           validate_action(actions[i], user_id, st, client, fault)))

\* Mutant of confirmation_needed: every plan is parked for a confirmation.
confirmation_needed_always(plan) == TRUE

\* ProcessRequest: `if plan.needs_user_confirmation or plan.has_destructive_actions()`
confirmation_needed(plan) ==
    plan.needs_user_confirmation \/ has_destructive_actions(plan)

\* ProcessRequest from the end of the validation loop on: the plan with the
\* actions as validation left them is rejected, parked or executed.  v is what
\* the loop returned.
plan_outcome(convs, session_id, user_id, plan, sink_ok, v) ==
    IF v.raised
    THEN [Turn(convs, v.store, <<>>,
               Response(FALSE, "error", ExceptionDetail, None, <<>>, FALSE),
               Some(plan), TRUE)
            EXCEPT !.validation_errors = v.validation_errors]
    ELSE IF v.validation_errors # <<>>
    THEN [Turn(add_assistant_message(convs, session_id, user_id, "error_response", None),
               v.store, <<>>,
               Response(FALSE, "error_response", v.validation_errors, None, <<>>, FALSE),
               Some(plan), FALSE)
            EXCEPT !.validation_errors = v.validation_errors]
    ELSE IF confirmation_needed(plan)
    THEN Turn(add_assistant_message(
                  set_pending_confirmation(convs, session_id, user_id, plan),
                  session_id, user_id, "confirmation_prompt", Some(plan)),
              v.store, <<>>,
              Response(TRUE, "confirmation_prompt", <<>>, Some(plan), <<>>, TRUE),
              Some(plan), FALSE)
    ELSE Turn(add_assistant_message(convs, session_id, user_id, "synthesized",
                                    Some(plan)),
              v.store, execute_plan(plan, sink_ok).dispatched,
              Response(TRUE, "synthesized", <<>>, Some(plan),
                       execute_plan(plan, sink_ok).results, FALSE),
              Some(plan), FALSE)

\* The plan object after the validation loop (validate_action has changed its
\* actions in place), and what ProcessRequest does with it
plan_validated(convs, session_id, user_id, plan0, sink_ok, v) ==
    plan_outcome(convs, session_id, user_id, [plan0 EXCEPT !.actions = v.actions],
                 sink_ok, v)

\* ProcessRequest from the plan on: validate, then reject, park or execute
plan_stage(convs, st, client, session_id, user_id, plan0, fault, sink_ok) ==
    plan_validated(convs, session_id, user_id, plan0, sink_ok,
                   validate_actions(plan0.actions, 1, user_id, st, client, fault, <<>>))

\* Mutant of request_outcome: a plan without actions is handled as any plan.
request_outcome_no_empty_check(convs, st, client, session_id, user_id, intent, plan, fault, sink_ok) ==
    IF intent = "clarification"
    THEN Turn(add_assistant_message(convs, session_id, user_id, "clarification", None),
              st, <<>>, Response(TRUE, "clarification", <<>>, None, <<>>, FALSE),
              None, FALSE)
    ELSE IF intent = "conversation"
    THEN Turn(add_assistant_message(convs, session_id, user_id, "conversation", None),
              st, <<>>, Response(TRUE, "conversation", <<>>, None, <<>>, FALSE),
              None, FALSE)
    ELSE plan_stage(convs, st, client, session_id, user_id, plan, fault, sink_ok)

\* Mutant of request_outcome: only a clarification is answered without a plan.
request_outcome_plans_conversation(convs, st, client, session_id, user_id, intent, plan, fault, sink_ok) ==
    IF intent = "clarification"
    THEN Turn(add_assistant_message(convs, session_id, user_id, "clarification", None),
              st, <<>>, Response(TRUE, "clarification", <<>>, None, <<>>, FALSE),
              None, FALSE)
    ELSE IF plan.actions = <<>>
    THEN Turn(add_assistant_message(convs, session_id, user_id, "need_details", None),
              st, <<>>, Response(TRUE, "need_details", <<>>, None, <<>>, FALSE),
              Some(plan), FALSE)
    ELSE plan_stage(convs, st, client, session_id, user_id, plan, fault, sink_ok)

\* ProcessRequest from the classification on, plan being what create_plan
\* returned (it is called only for an intent that is planned).
request_outcome(convs, st, client, session_id, user_id, intent, plan, fault, sink_ok) ==
    IF intent = "clarification"
    THEN Turn(add_assistant_message(convs, session_id, user_id, "clarification", None),
              st, <<>>, Response(TRUE, "clarification", <<>>, None, <<>>, FALSE),
              None, FALSE)
    ELSE IF intent = "conversation"
    THEN Turn(add_assistant_message(convs, session_id, user_id, "conversation", None),
              st, <<>>, Response(TRUE, "conversation", <<>>, None, <<>>, FALSE),
              None, FALSE)
    ELSE IF plan.actions = <<>>
    THEN Turn(add_assistant_message(convs, session_id, user_id, "need_details", None),
              st, <<>>, Response(TRUE, "need_details", <<>>, None, <<>>, FALSE),
              Some(plan), FALSE)
    ELSE plan_stage(convs, st, client, session_id, user_id, plan, fault, sink_ok)

\* ProcessRequest once nothing was found pending.  intent is what the
\* classifier returned; actions_data, needs_confirmation and failed are the
\* model's proposal for the plan.
request_stage(convs, st, client, session_id, user_id, intent, actions_data, needs_confirmation, failed, fault, sink_ok) ==
    request_outcome(convs, st, client, session_id, user_id, intent,
                    create_plan(actions_data, needs_confirmation, failed), fault, sink_ok)

\* ProcessRequest once get_pending_confirmation has returned g
request_pending(g, st, client, session_id, user_id, user_input, intent, actions_data, needs_confirmation, failed, fault, sink_ok) ==
    IF g.plan # None
    THEN handle_confirmation_response(g.convs, st, session_id, user_id, user_input,
                                      sink_ok)
    ELSE request_stage(g.convs, st, client, session_id, user_id, intent,
                       actions_data, needs_confirmation, failed, fault, sink_ok)

\* ProcessRequest
process_request(convs0, st, client, session_id, user_id, user_input, intent, actions_data, needs_confirmation, failed, fault, sink_ok) ==
    request_pending(
        get_pending_confirmation(
            add_user_message(convs0, session_id, user_id, user_input), session_id),
        st, client, session_id, user_id, user_input, intent,
        actions_data, needs_confirmation, failed, fault, sink_ok)

-----------------------------------------------------------------------------
(* Bounds and input pools                                                  *)

MaxNow == 420            \* the clock stops here
MaxValidations == 5      \* ValidateSpec: validations of one action
MaxValidateNow == 120    \* ValidateSpec: the clock stops here

TickSeconds == {30, 60}
Users == {"u1"}
Sessions == {"s1"}

NoParams == [x \in {} |-> None]

\* Parameter maps the planner (the model's output) may propose
ParamPool ==
    { NoParams,
      [query |-> StrV(S_query)],
      [query |-> StrV(S_query), max_results |-> IntV(100)],
      [query |-> StrV(S_query), max_results |-> BoolV(TRUE)],
      [command |-> StrV(S_query)],
      [url |-> StrV(S_url_ok)],
      [url |-> StrV(S_url_bad)],
      [path |-> StrV(S_ws_file), content |-> StrV(S_query), url |-> StrV(S_url_bad)] }
    \cup { [path |-> x, content |-> StrV(S_query)] :
             x \in { StrV(S_etc_passwd), StrV(S_etc), StrV(S_ws_file), StrV(S_ws_up_etc),
                     StrV(S_tmp_file), StrV(S_windows), IntV(7) } }
    \cup { [path |-> StrV(S_ws_file)], [path |-> StrV(S_tmp_file)] }

ValidateTools == {"web_search", "web_fetch", "browser_navigate", "file_read",
                  "file_write", "system_command"}

ValidateActions ==
    { ToolAction(t, p, l) : t \in ValidateTools, p \in ParamPool, l \in ConfirmationLevels }

-----------------------------------------------------------------------------
(* ValidateSpec: ToolRouter.validate_action applied to one action, and then *)
(* again to the action it left, against the counter store.                 *)

NoTurn == [op |-> "none"]
NoWorkers == <<>>

VCurrent == IF v_out = <<>> THEN v_in.action ELSE v_out[Len(v_out)].action

\* A store operation can raise only where the check reaches the store
VFaults ==
    IF /\ redis_client = "connected"
       /\ VCurrent.tool_name \in DOMAIN tool_configs
       /\ tool_configs[VCurrent.tool_name].rate_limit # None
    THEN BOOLEAN ELSE {FALSE}

VInit ==
    /\ now = 0
    /\ conversations = <<>>
    /\ store = <<>>
    /\ redis_client \in {"connected", "none"}
    /\ last = NoTurn
    /\ workers = NoWorkers
    /\ executions = <<>>
    /\ v_in \in [action : ValidateActions, user_id : Users]
    /\ v_out = <<>>

VValidate ==
    /\ Len(v_out) < MaxValidations
    /\ \E fault \in VFaults :
         LET r == validate_action(VCurrent, v_in.user_id, store, redis_client, fault)
         IN  /\ v_out' = Append(v_out, [input |-> VCurrent, fault |-> fault, ok |-> r.ok,
                                        error |-> r.error, action |-> r.action,
                                        raised |-> r.raised, before |-> store,
                                        at |-> now])
             /\ store' = r.store
    /\ UNCHANGED <<now, conversations, redis_client, last, workers, executions, v_in>>

\* Keys of the counter store whose TTL has run out at time t are gone.
Expire(st, t) ==
    [k \in {k \in DOMAIN st : st[k].expires_at = NoExpiry \/ st[k].expires_at > t}
        |-> st[k]]

VTick ==
    /\ store # <<>>
    /\ \E d \in TickSeconds :
         /\ now + d <= MaxValidateNow
         /\ now' = now + d
         /\ store' = Expire(store, now + d)
    /\ UNCHANGED <<conversations, redis_client, last, workers, executions, v_in, v_out>>

VNext == VValidate \/ VTick

ValidateSpec == VInit /\ [][VNext]_vars

-----------------------------------------------------------------------------
(* Spec: the handlers of AgentServicer, one call at a time (the REST        *)
(* endpoints of main.py call them one after the other on the event loop).  *)

MaxMessages == 4         \* a handler starts only if its messages fit in the history
MaxProposals == 2        \* actions in one proposal of the model

T_yes   == <<"y", "e", "s">>
T_No    == <<"N", "o", " ">>
T_maybe == <<"m", "a", "y", "b", "e">>
T_what  == <<"w", "h", "a", "t">>

\* What the user may say
Texts == {T_yes, T_No, T_maybe, T_what}

\* What the user says when nothing is pending.  Such a text is read by the
\* classifier and the model only, whose answers are free here; a reply that
\* comes after the parked plan has expired is one.
PlanTexts == {T_yes}

\* What the intent classifier may return (every type but the two below plans)
Intents == {"clarification", "conversation", "execute"}

\* Actions the model may propose
ProposalPool ==
    { RawAction("web_search", [query |-> StrV(S_query)], Some("none")),
      RawAction("web_search", [query |-> StrV(S_query)], None),
      RawAction("browser_navigate", [url |-> StrV(S_url_ok)], Some("none")),
      RawAction("file_write", [path |-> StrV(S_ws_file), content |-> StrV(S_query)],
                Some("none")),
      RawAction("file_write", [path |-> StrV(S_etc_passwd), content |-> StrV(S_query)],
                Some("none")),
      RawAction("file_write", [path |-> StrV(S_ws_file), content |-> StrV(S_query),
                               selector |-> IntV(7)], Some("hard")),
      RawAction("rm_rf", NoParams, Some("none")) }

Proposals == UNION { [1..n -> ProposalPool] : n \in 0..MaxProposals }

\* Answers of the services to the calls of one _execute_plan: all succeed, or
\* the first fails
SinkPool == { [i \in 1..max_actions |-> TRUE], [i \in 1..max_actions |-> i # 1] }
SinkOk == [i \in 1..max_actions |-> TRUE]

\* Time between two calls: the pending window, and a second more
PendingTicks == {pending_window, pending_window + 1}

Slot(convs, session_id) ==
    IF session_id \in DOMAIN convs THEN convs[session_id].pending_confirmation ELSE None

HistoryLen(session_id) ==
    IF session_id \in DOMAIN conversations
    THEN Len(conversations[session_id].messages) ELSE 0

Init ==
    /\ now = 0
    /\ conversations = <<>>
    /\ store = <<>>
    /\ redis_client \in {"connected", "none"}
    /\ last = NoTurn
    /\ workers = NoWorkers
    /\ executions = <<>>
    /\ v_in = <<>>
    /\ v_out = <<>>

\* A handler has run: the state it leaves and the record of the call
Finish(op, session_id, user_id, input, turn) ==
    /\ conversations' = turn.convs
    /\ store' = turn.store
    /\ last' = [op |-> op, session_id |-> session_id, user_id |-> user_id,
                input |-> input, slot_before |-> Slot(conversations, session_id),
                dispatched |-> turn.dispatched, response |-> turn.response,
                plan |-> turn.plan, raised |-> turn.raised,
                validation_errors |-> turn.validation_errors]
    /\ UNCHANGED <<now, redis_client, workers, executions, v_in, v_out>>

\* ProcessRequest on a session that holds an unexpired pending confirmation
ProcessReply ==
    /\ last = NoTurn
    /\ \E session_id \in Sessions, user_id \in Users, user_input \in Texts :
         /\ HistoryLen(session_id) + 2 <= MaxMessages
         /\ get_pending_confirmation(conversations, session_id).plan # None
         /\ \E sink_ok \in (IF reply_kind(user_input) = "affirmative"
                            THEN SinkPool ELSE {SinkOk}) :
              Finish("ProcessRequest", session_id, user_id, user_input,
                     process_request(conversations, store, redis_client, session_id,
                                     user_id, user_input, "execute", <<>>, FALSE, FALSE,
                                     FALSE, sink_ok))

\* ProcessRequest on a session without one: an intent that is answered directly
ProcessTalk ==
    /\ last = NoTurn
    /\ \E session_id \in Sessions, user_id \in Users, user_input \in PlanTexts :
         /\ HistoryLen(session_id) + 2 <= MaxMessages
         /\ get_pending_confirmation(conversations, session_id).plan = None
         /\ \E intent \in Intents \ {"execute"} :
              Finish("ProcessRequest", session_id, user_id, user_input,
                     process_request(conversations, store, redis_client, session_id,
                                     user_id, user_input, intent, <<>>, FALSE, FALSE,
                                     FALSE, SinkOk))

\* ProcessRequest on a session without one: an intent that is planned
ProcessPlan ==
    /\ last = NoTurn
    /\ \E session_id \in Sessions, user_id \in Users, user_input \in PlanTexts :
         /\ HistoryLen(session_id) + 2 <= MaxMessages
         /\ get_pending_confirmation(conversations, session_id).plan = None
         /\ \E actions_data \in Proposals, needs_confirmation \in BOOLEAN,
               failed \in BOOLEAN, fault \in BOOLEAN, sink_ok \in SinkPool :
              /\ failed => (actions_data = <<>> /\ ~needs_confirmation)
              /\ (fault \/ sink_ok # SinkOk) => ~failed
              /\ fault => redis_client = "connected"
              /\ Finish("ProcessRequest", session_id, user_id, user_input,
                        process_request(conversations, store, redis_client, session_id,
                                        user_id, user_input, "execute", actions_data,
                                        needs_confirmation, failed, fault, sink_ok))

ConfirmAction ==
    /\ last = NoTurn
    /\ \E session_id \in Sessions, user_id \in Users, confirmed \in BOOLEAN :
         /\ HistoryLen(session_id) + 1 <= MaxMessages
         /\ \E sink_ok \in (IF confirmed THEN SinkPool ELSE {SinkOk}) :
              Finish("ConfirmAction", session_id, user_id, confirmed,
                     confirm_action(conversations, store, session_id, user_id,
                                    confirmed, sink_ok))

\* DELETE /api/v1/conversation/{session_id}
EndConversation ==
    /\ last = NoTurn
    /\ \E session_id \in Sessions :
         /\ session_id \in DOMAIN conversations
         /\ Finish("EndConversation", session_id, "", "",
                   Turn(end_conversation(conversations, session_id), store, <<>>,
                        Response(TRUE, "ended", <<>>, None, <<>>, FALSE), None, FALSE))

\* The response has gone to the caller
Deliver ==
    /\ last # NoTurn
    /\ last' = NoTurn
    /\ UNCHANGED <<now, conversations, store, redis_client, workers, executions, v_in, v_out>>

\* Time passes between two calls
Tick ==
    /\ last = NoTurn
    /\ store # <<>> \/ \E s \in DOMAIN conversations : Slot(conversations, s) # None
    /\ \E d \in PendingTicks :
         /\ now + d <= MaxNow
         /\ now' = now + d
         /\ store' = Expire(store, now + d)
    /\ UNCHANGED <<conversations, redis_client, last, workers, executions, v_in, v_out>>

Next ==
    \/ ProcessReply
    \/ ProcessTalk
    \/ ProcessPlan
    \/ ConfirmAction
    \/ EndConversation
    \/ Deliver
    \/ Tick

Spec == Init /\ [][Next]_vars

-----------------------------------------------------------------------------
(* ThreadSpec: serve() hands the calls to the worker threads of a           *)
(* ThreadPoolExecutor; no handler takes a lock, so the threads interleave   *)
(* between any two calls on the ConversationManager.  Each worker handles   *)
(* one call on session "s1", on which a plan has been parked.               *)

MaxWorkers == 2          \* worker threads handling a call (serve() allows 10)

Workers == 1..MaxWorkers

IdleWorker ==
    [pc |-> "idle", op |-> "none", user_input |-> <<>>, confirmed |-> FALSE,
     pending_plan |-> None, slot |-> None, response |-> "none"]

\* Proposals whose plan is parked
ParkingProposals ==
    { << RawAction("file_write", [path |-> StrV(S_ws_file), content |-> StrV(S_query)],
                   Some("none")) >>,
      << RawAction("web_search", [query |-> StrV(S_query)], None) >> }

\* Proposals of the calls the workers handle
ThreadProposals ==
    ParkingProposals \cup { << RawAction("web_search", [query |-> StrV(S_query)],
                                         Some("none")) >> }

TSession == "s1"
TUser == "u1"

\* The state a first ProcessRequest that parked its plan has left
TInit ==
    /\ now = 0
    /\ store = <<>>
    /\ redis_client = "none"
    /\ \E actions_data \in ParkingProposals :
         conversations = process_request(<<>>, <<>>, "none", TSession, TUser, T_what,
                                         "execute", actions_data, FALSE, FALSE, FALSE,
                                         SinkOk).convs
    /\ last = NoTurn
    /\ workers = [w \in Workers |-> IdleWorker]
    /\ executions = <<>>
    /\ v_in = <<>>
    /\ v_out = <<>>

TFrame == UNCHANGED <<now, redis_client, last, v_in, v_out>>

\* A worker is handed a ProcessRequest call
TAcceptProcessRequest(w) ==
    /\ workers[w].pc = "idle"
    /\ \E user_input \in Texts :
         workers' = [workers EXCEPT ![w] = [@ EXCEPT !.pc = "add_user_message",
                                                     !.op = "ProcessRequest",
                                                     !.user_input = user_input]]
    /\ UNCHANGED <<conversations, store, executions>>
    /\ TFrame

\* A worker is handed a ConfirmAction call
TAcceptConfirmAction(w) ==
    /\ workers[w].pc = "idle"
    /\ \E confirmed \in BOOLEAN :
         workers' = [workers EXCEPT ![w] = [@ EXCEPT !.pc = "confirm_get_pending",
                                                     !.op = "ConfirmAction",
                                                     !.confirmed = confirmed]]
    /\ UNCHANGED <<conversations, store, executions>>
    /\ TFrame

\* ProcessRequest: add_user_message
TAddUserMessage(w) ==
    /\ workers[w].pc = "add_user_message"
    /\ conversations' = add_user_message(conversations, TSession, TUser,
                                         workers[w].user_input)
    /\ workers' = [workers EXCEPT ![w].pc = "get_pending"]
    /\ UNCHANGED <<store, executions>>
    /\ TFrame

\* ProcessRequest: get_pending_confirmation, and _handle_confirmation_response
\* up to its call of ConfirmAction
TGetPending(w) ==
    /\ workers[w].pc = "get_pending"
    /\ LET g == get_pending_confirmation(conversations, TSession)
           kind == reply_kind(workers[w].user_input)
       IN  /\ conversations' = g.convs
           /\ workers' = [workers EXCEPT ![w] =
                  IF g.plan = None THEN [@ EXCEPT !.pc = "request_stage"]
                  ELSE IF kind = "affirmative"
                  THEN [@ EXCEPT !.pc = "confirm_get_pending", !.confirmed = TRUE]
                  ELSE IF kind = "negative"
                  THEN [@ EXCEPT !.pc = "confirm_get_pending", !.confirmed = FALSE]
                  ELSE [@ EXCEPT !.pc = "return", !.response = "reprompt"]]
    /\ UNCHANGED <<store, executions>>
    /\ TFrame

\* ProcessRequest from the classification on, without interruption
TRequestStage(w) ==
    /\ workers[w].pc = "request_stage"
    /\ \E intent \in {"conversation", "execute"}, actions_data \in ThreadProposals :
         LET turn == request_stage(conversations, store, redis_client, TSession, TUser,
                                   intent, actions_data, FALSE, FALSE, FALSE, SinkOk)
         IN  /\ conversations' = turn.convs
             /\ store' = turn.store
             /\ executions' = IF turn.dispatched = <<>> THEN executions
                              ELSE Append(executions, [worker |-> w, slot |-> None,
                                                       dispatched |-> turn.dispatched])
             /\ workers' = [workers EXCEPT ![w] =
                               [@ EXCEPT !.pc = "return",
                                         !.response = turn.response.response]]
    /\ TFrame

\* ConfirmAction: get_pending_confirmation
TConfirmGetPending(w) ==
    /\ workers[w].pc = "confirm_get_pending"
    /\ LET g == get_pending_confirmation(conversations, TSession)
       IN  /\ conversations' = g.convs
           /\ workers' = [workers EXCEPT ![w] =
                  IF g.plan = None
                  THEN [@ EXCEPT !.pc = "return", !.response = "no_pending"]
                  ELSE [@ EXCEPT !.pc = "clear", !.pending_plan = g.plan,
                                 !.slot = Slot(conversations, TSession)]]
    /\ UNCHANGED <<store, executions>>
    /\ TFrame

\* ConfirmAction: clear_pending_confirmation
TClear(w) ==
    /\ workers[w].pc = "clear"
    /\ conversations' = clear_pending_confirmation(conversations, TSession)
    /\ workers' = [workers EXCEPT ![w].pc =
                      IF workers[w].confirmed THEN "execute" ELSE "respond"]
    /\ UNCHANGED <<store, executions>>
    /\ TFrame

\* ConfirmAction: _execute_plan(pending_plan)
TExecute(w) ==
    /\ workers[w].pc = "execute"
    /\ executions' = Append(executions,
                            [worker |-> w, slot |-> workers[w].slot,
                             dispatched |-> execute_plan(workers[w].pending_plan[1],
                                                         SinkOk).dispatched])
    /\ workers' = [workers EXCEPT ![w].pc = "respond"]
    /\ UNCHANGED <<conversations, store>>
    /\ TFrame

\* ConfirmAction: add_assistant_message
TRespond(w) ==
    /\ workers[w].pc = "respond"
    /\ conversations' =
         IF workers[w].confirmed
         THEN add_assistant_message(conversations, TSession, TUser, "synthesized",
                                    workers[w].pending_plan)
         ELSE add_assistant_message(conversations, TSession, TUser, "cancelled", None)
    /\ workers' = [workers EXCEPT ![w] =
                      [@ EXCEPT !.pc = "return",
                                !.response = IF workers[w].confirmed
                                             THEN "synthesized" ELSE "cancelled"]]
    /\ UNCHANGED <<store, executions>>
    /\ TFrame

\* The handler returns its response
TReturn(w) ==
    /\ workers[w].pc = "return"
    /\ workers' = [workers EXCEPT ![w].pc = "done"]
    /\ UNCHANGED <<conversations, store, executions>>
    /\ TFrame

TNext ==
    \E w \in Workers :
        \/ TAcceptProcessRequest(w)
        \/ TAcceptConfirmAction(w)
        \/ TAddUserMessage(w)
        \/ TGetPending(w)
        \/ TRequestStage(w)
        \/ TConfirmGetPending(w)
        \/ TClear(w)
        \/ TExecute(w)
        \/ TRespond(w)
        \/ TReturn(w)

ThreadSpec == TInit /\ [][TNext]_vars

-----------------------------------------------------------------------------
(* CatalogSpec: ToolRouter.__init__ loads the catalog from a document that  *)
(* may be there, absent or unreadable, and validate_action is then called   *)
(* on an action.                                                            *)

Documents == {"loaded", "absent", "unreadable"}

CInit ==
    /\ now = 0
    /\ conversations = <<>>
    /\ store = <<>>
    /\ redis_client \in {"connected", "none"}
    /\ last = NoTurn
    /\ workers = NoWorkers
    /\ executions = <<>>
    /\ v_in \in [document : Documents, tool_configs : {None},
                 action : ValidateActions, user_id : Users]
    /\ v_out = <<>>

\* ToolRouter.__init__: self.tool_configs = self._load_tool_configs()
CStart ==
    /\ v_in.tool_configs = None
    /\ v_in' = [v_in EXCEPT !.tool_configs = Some(load_tool_configs(v_in.document))]
    /\ UNCHANGED <<now, conversations, store, redis_client, last, workers, executions, v_out>>

CValidateWith(action, fault, r) ==
    /\ v_out' = << [input |-> action, fault |-> fault, ok |-> r.ok, error |-> r.error,
                    action |-> r.action, raised |-> r.raised] >>
    /\ store' = r.store

CValidate ==
    /\ v_in.tool_configs # None
    /\ v_out = <<>>
    /\ \E fault \in (IF redis_client = "connected" THEN BOOLEAN ELSE {FALSE}) :
         CValidateWith(v_in.action, fault,
             validate_action_in(v_in.tool_configs[1], v_in.action, v_in.user_id, store,
                                redis_client, fault))
    /\ UNCHANGED <<now, conversations, redis_client, last, workers, executions, v_in>>

CNext == CStart \/ CValidate

CatalogSpec == CInit /\ [][CNext]_vars

-----------------------------------------------------------------------------
(* LimiterSpec: the worker threads of serve() validate actions of one user  *)
(* and one rated tool at the same time; each check_rate_limit reads the     *)
(* counter and then writes it, and the threads interleave between the two   *)
(* store operations.  No time passes: all the calls fall in one window.     *)

MaxCalls == 3            \* check_rate_limit calls of one worker

RatedTools == {t \in DOMAIN tool_configs : tool_configs[t].rate_limit # None}

LIdle == [pc |-> "idle", current |-> None, calls |-> 0, allowed |-> 0]

LKey == RateKey(v_in.user_id, v_in.tool_name)

LInit ==
    /\ now = 0
    /\ conversations = <<>>
    /\ store = <<>>
    /\ redis_client = "connected"
    /\ last = NoTurn
    /\ workers = [w \in Workers |-> LIdle]
    /\ executions = <<>>
    /\ v_in \in [tool_name : RatedTools, user_id : Users]
    /\ v_out = <<>>

\* current = self.redis_client.get(key)
LGet(w) ==
    /\ workers[w].pc = "idle"
    /\ workers[w].calls < MaxCalls
    /\ redis_client = "connected"
    /\ RatePeriodOf(v_in.tool_name) # 0
    /\ workers' = [workers EXCEPT ![w] = [@ EXCEPT !.pc = "decide",
                                                   !.current = rate_get(store, LKey)]]
    /\ UNCHANGED <<now, conversations, store, redis_client, last, executions, v_in, v_out>>

\* setex, rejection or incr on the value read, and the call returns
LDecideWith(w, r) ==
    /\ store' = r.store
    /\ workers' = [workers EXCEPT ![w] =
                      [pc |-> "idle", current |-> None, calls |-> @.calls + 1,
                       allowed |-> IF r.allowed THEN @.allowed + 1 ELSE @.allowed]]

LDecide(w) ==
    /\ workers[w].pc = "decide"
    /\ LDecideWith(w, rate_decide(store, LKey, workers[w].current,
                                  RateLimitOf(v_in.tool_name), RatePeriodOf(v_in.tool_name)))
    /\ UNCHANGED <<now, conversations, redis_client, last, executions, v_in, v_out>>

LNext == \E w \in Workers : LGet(w) \/ LDecide(w)

LimiterSpec == LInit /\ [][LNext]_vars

-----------------------------------------------------------------------------
(* Claims on ToolRouter.validate_action                                    *)

\* The sensitive parameters of an action whose value matches an entry of the
\* blocklist of the tool's policy
BlockedParams(action) ==
    IF action.tool_name \notin DOMAIN tool_configs THEN {}
    ELSE { i \in 1..Len(sensitive_params) :
             /\ sensitive_params[i] \in DOMAIN action.parameters
             /\ IsStr(action.parameters[sensitive_params[i]])
             /\ \E j \in 1..Len(tool_configs[action.tool_name].blocklist) :
                  matches_pattern(action.parameters[sensitive_params[i]].v,
                                  tool_configs[action.tool_name].blocklist[j]) }

AllowedParams(action) ==
    IF action.tool_name \notin DOMAIN tool_configs THEN {}
    ELSE { i \in 1..Len(sensitive_params) :
             /\ sensitive_params[i] \in DOMAIN action.parameters
             /\ IsStr(action.parameters[sensitive_params[i]])
             /\ \E j \in 1..Len(tool_configs[action.tool_name].allowlist) :
                  matches_pattern(action.parameters[sensitive_params[i]].v,
                                  tool_configs[action.tool_name].allowlist[j]) }

\* C8: validate_action accepts no action that has a sensitive parameter whose
\* value matches a blocklist entry of the tool's policy, whether or not the value
\* also matches an allowlist entry and whatever confirmation level it declares.
C8_BlocklistRejects ==
    \A i \in 1..Len(v_out) :
        BlockedParams(v_out[i].input) # {} => ~v_out[i].ok

\* A file_write to /etc/passwd declared NONE, the path on the allowlist and on
\* the blocklist, rejected at the allow/block stage as blocked.
C8_Witness ==
    /\ Len(v_out) >= 1
    /\ v_out[1].input.tool_name = "file_write"
    /\ v_out[1].input.confirmation_level = "none"
    /\ "path" \in DOMAIN v_out[1].input.parameters
    /\ ValEq(v_out[1].input.parameters["path"], StrV(S_etc_passwd))
    /\ BlockedParams(v_out[1].input) \cap AllowedParams(v_out[1].input) # {}
    /\ ~v_out[1].ok
    /\ v_out[1].error = Some(Reject("blocked", "file_write", "path"))

\* The minimum confirmation level of a tool's policy
PolicyMinimum(tool) ==
    IF tool_configs[tool].confirmation_level \in ConfirmationLevels
    THEN tool_configs[tool].confirmation_level ELSE "none"

HigherLevel(a, b) == IF level_order(a) >= level_order(b) THEN a ELSE b

\* C10: an accepted validation leaves the action with the higher of its declared
\* level and the policy minimum and changes nothing else of it, a rejected one
\* leaves it as it was, the verdict does not depend on the declared level, and
\* validating again the action an accepted validation left does not change it.
C10_UpgradeMonotonic ==
    \A i \in 1..Len(v_out) :
        LET x == v_out[i]
        IN  /\ x.ok =>
                 x.action = [x.input EXCEPT !.confirmation_level =
                               HigherLevel(x.input.confirmation_level,
                                           PolicyMinimum(x.input.tool_name))]
            /\ ~x.ok => x.action = x.input
            /\ \A l \in ConfirmationLevels :
                 validate_action([x.input EXCEPT !.confirmation_level = l], v_in.user_id,
                                 x.before, redis_client, x.fault).ok = x.ok
            /\ (i > 1 /\ v_out[i - 1].ok) => x.action = x.input

\* A file_write declared NONE is accepted and left HARD; validated again it is
\* accepted and unchanged.
C10_Witness ==
    /\ Len(v_out) >= 2
    /\ v_out[1].ok /\ v_out[2].ok
    /\ v_out[1].input.tool_name = "file_write"
    /\ v_out[1].input.confirmation_level = "none"
    /\ v_out[1].action.confirmation_level = "hard"
    /\ v_out[2].input = v_out[1].action
    /\ v_out[2].action = v_out[1].action

-----------------------------------------------------------------------------
(* Claims on the turn handlers                                             *)

\* The time a pending slot was filled, and whether it is still within the window
ParkedAt(slot) == fromisoformat(slot[1].timestamp)
Unexpired(slot) == slot # None /\ now - ParkedAt(slot) <= pending_window

\* The actions a pending slot holds, in order
ParkedActions(slot) ==
    [i \in 1..Len(slot[1].plan[1]) |->
        ToolAction(slot[1].plan[1][i][1], slot[1].plan[1][i][2], slot[1].plan[1][i][3])]

SlotNow == Slot(conversations, last.session_id)

\* A ProcessRequest turn that made a plan whose validation ran to its end
\* without a rejection
PlannedTurn ==
    /\ last.op = "ProcessRequest"
    /\ last.plan # None
    /\ last.plan[1].actions # <<>>
    /\ ~last.raised
    /\ last.validation_errors = <<>>

NeedsPrompt(plan) ==
    \E i \in 1..Len(plan.actions) : plan.actions[i].confirmation_level \in {"soft", "hard"}

\* C1: a turn that made a new plan in which, after validation, an action is
\* SOFT or HARD (declared so or upgraded by the validator) dispatches nothing
\* and leaves that plan parked as the session's pending confirmation.
C1_ConfirmationParks ==
    (PlannedTurn /\ NeedsPrompt(last.plan[1])) =>
        /\ last.dispatched = <<>>
        /\ SlotNow # None
        /\ ParkedActions(SlotNow) = last.plan[1].actions
        /\ ParkedAt(SlotNow) = now

\* The texts of the pool that hold no word of the affirmative or negative lists
NeitherTexts == {T_maybe, T_what}

\* C2: on a session with an unexpired pending confirmation, a turn whose text
\* is neither affirmative nor negative ("maybe") dispatches nothing, leaves the
\* pending slot as it was and returns the re-prompt.
C2_NeitherReprompts ==
    (/\ last.op = "ProcessRequest"
     /\ last.input \in NeitherTexts
     /\ Unexpired(last.slot_before)) =>
        /\ last.dispatched = <<>>
        /\ SlotNow = last.slot_before
        /\ last.response.response = "reprompt"

HoldsWord(words, text) == any_word_in(words, Str_strip(Str_lower(text)))

\* A turn that confirms: ConfirmAction(confirmed), or ProcessRequest with a text
\* that holds an affirmative keyword
ConfirmingTurn ==
    \/ last.op = "ConfirmAction" /\ last.input
    \/ last.op = "ProcessRequest" /\ HoldsWord(affirmative, last.input)

\* A turn that declines: ConfirmAction(not confirmed), or ProcessRequest with a
\* text that holds a negative keyword and no affirmative one
DecliningTurn ==
    \/ last.op = "ConfirmAction" /\ ~last.input
    \/ last.op = "ProcessRequest" /\ HoldsWord(negative, last.input)
       /\ ~HoldsWord(affirmative, last.input)

\* C3: on a session with an unexpired pending confirmation, an affirmative turn
\* dispatches the actions of the parked plan, all of them and no other, in the
\* parked order and with the parked parameters, and leaves the slot empty.
C3_AffirmativeExecutesParked ==
    (ConfirmingTurn /\ Unexpired(last.slot_before)) =>
        /\ Len(last.dispatched) = Len(ParkedActions(last.slot_before))
        /\ \A i \in 1..Len(last.dispatched) :
             LET parked == ParkedActions(last.slot_before)[i]
                 sent == last.dispatched[i]
             IN  /\ sent.action = parked
                 /\ sent.service = route_action(parked)
                 /\ \A k \in DOMAIN sent.call.args \cap DOMAIN parked.parameters :
                      ValEq(sent.call.args[k], parked.parameters[k])
        /\ SlotNow = None

\* "yes" on a parked plan of two actions: both are sent, in the parked order
C3_Witness ==
    /\ last.op = "ProcessRequest"
    /\ last.input = T_yes
    /\ Unexpired(last.slot_before)
    /\ Len(ParkedActions(last.slot_before)) = 2
    /\ ParkedActions(last.slot_before)[1].tool_name = "web_search"
    /\ ParkedActions(last.slot_before)[2].tool_name = "file_write"
    /\ Len(last.dispatched) = 2
    /\ last.dispatched[1].action.tool_name = "web_search"
    /\ last.dispatched[2].action.tool_name = "file_write"
    /\ SlotNow = None

\* C4: on a session with an unexpired pending confirmation, a turn whose text
\* holds a negative keyword and no affirmative one (or ConfirmAction with
\* confirmed false) dispatches nothing and leaves the slot empty.
C4_NegativeClears ==
    (DecliningTurn /\ Unexpired(last.slot_before)) =>
        /\ last.dispatched = <<>>
        /\ SlotNow = None

\* "No " on a parked plan: cancelled, nothing sent, the slot empty
C4_Witness ==
    /\ last.op = "ProcessRequest"
    /\ last.input = T_No
    /\ Unexpired(last.slot_before)
    /\ last.response.response = "cancelled"
    /\ last.dispatched = <<>>
    /\ SlotNow = None

\* A handler that consumes the pending confirmation of its session: it confirms
\* or declines it (ConfirmAction, or ProcessRequest on the confirmation branch),
\* or it removes the session.
Consumes(turn) ==
    \/ turn.op = "EndConversation"
    \/ turn.op = "ConfirmAction" /\ turn.response.response \in {"synthesized", "cancelled"}
    \/ turn.op = "ProcessRequest" /\ turn.plan = None
       /\ turn.response.response \in {"synthesized", "cancelled"}

\* C5: a pending confirmation that has not expired is never replaced: whenever
\* the slot of a session holds one and a step changes the slot, the step is a
\* handler on that session that confirms it, declines it or removes the session,
\* and the slot is empty afterwards (set_pending_confirmation is not reached).
C5_UnexpiredNeverReplaced ==
    [][ \A s \in Sessions :
          (Unexpired(Slot(conversations, s))
           /\ Slot(conversations', s) # Slot(conversations, s)) =>
              /\ Slot(conversations', s) = None
              /\ last'.session_id = s
              /\ Consumes(last') ]_vars

\* A request that would be planned arrives while a plan is parked and unexpired:
\* it is taken as a reply, nothing is parked over the plan
C5_Witness ==
    /\ last.op = "ProcessRequest"
    /\ Unexpired(last.slot_before)
    /\ last.input = T_what
    /\ last.response.response = "reprompt"
    /\ SlotNow = last.slot_before

\* C6: get_pending_confirmation on a slot filled more than 5 minutes ago returns
\* none and leaves the slot empty; on a slot filled at most 5 minutes ago it
\* returns the plan that was parked and changes nothing.  The slot of a turn
\* that parked holds that turn's plan and time, and ConfirmAction, which starts
\* with the read, finds nothing pending exactly in the first case.
C6_LazyExpiry ==
    /\ \A s \in DOMAIN conversations :
         LET slot == Slot(conversations, s)
             g == get_pending_confirmation(conversations, s)
         IN  slot # None =>
               IF now - ParkedAt(slot) > 5 * 60
               THEN g.plan = None /\ Slot(g.convs, s) = None
               ELSE /\ g.plan = Some(AgentPlan(ParkedActions(slot), slot[1].plan[2]))
                    /\ g.convs = conversations
    /\ (last.op = "ProcessRequest" /\ last.response.response = "confirmation_prompt") =>
         /\ ParkedAt(SlotNow) = now
         /\ get_pending_confirmation(conversations, last.session_id).plan = last.plan
    /\ (last.op = "ConfirmAction" /\ last.slot_before # None) =>
         IF now - ParkedAt(last.slot_before) > 5 * 60
         THEN /\ last.response.response = "no_pending"
              /\ last.dispatched = <<>>
              /\ SlotNow = None
         ELSE last.response.response # "no_pending"

\* ConfirmAction 301 seconds after the plan was parked: nothing pending, the
\* slot is cleared
C6_Witness ==
    /\ last.op = "ConfirmAction"
    /\ last.input
    /\ last.slot_before # None
    /\ now - ParkedAt(last.slot_before) = 301
    /\ last.response.response = "no_pending"
    /\ SlotNow = None

\* C9: a turn in which validate_action rejected an action of the plan dispatches
\* nothing, parks nothing, and returns success=false with the reason of every
\* rejected action.
C9_RejectionAbortsPlan ==
    (last.op = "ProcessRequest" /\ last.validation_errors # <<>>) =>
        /\ last.dispatched = <<>>
        /\ SlotNow = None
        /\ ~last.response.success
        /\ last.response.error = last.validation_errors

-----------------------------------------------------------------------------
(* Claim on concurrent turns                                               *)

\* C7: whatever the interleaving of two calls on one session, a parked plan is
\* consumed by at most one of them: no two _execute_plan calls run the plan of
\* the same pending slot.
C7_ParkedPlanDispatchedOnce ==
    \A i, j \in 1..Len(executions) :
        (executions[i].slot # None /\ executions[i].slot = executions[j].slot) => i = j

-----------------------------------------------------------------------------
(* Claims on the rate limiter                                              *)

\* The validations of ValidateSpec reach the rate-limit stage of a rated tool
RatedValidations ==
    /\ v_in # <<>>
    /\ v_in.action.tool_name \in DOMAIN tool_configs
    /\ tool_configs[v_in.action.tool_name].enabled
    /\ tool_configs[v_in.action.tool_name].rate_limit # None
    /\ validate_parameters(v_in.action, tool_configs[v_in.action.tool_name]) = None

\* Validation k was not rejected by the rate-limit stage
RatePassed(k) == v_out[k].error = None \/ v_out[k].error[1].kind # "rate_limit"

\* The validation that opened the window validation k falls in, by the clock alone:
\* the first one, and then each one issued a period or more after the last opener
RECURSIVE WindowOpener(_)
WindowOpenerAfter(k, o) ==
    IF v_out[k].at >= v_out[o].at + RatePeriodOf(v_in.action.tool_name) THEN k ELSE o
WindowOpener(k) == IF k = 1 THEN 1 ELSE WindowOpenerAfter(k, WindowOpener(k - 1))

\* C11: with a working counter store, the sequential validations by one user of a
\* tool limited to L per period pass the rate-limit stage while fewer than L
\* validations came before them in their window, are rejected from the (L+1)-th
\* of the window on, and pass again once the window's TTL has run out.
C11_RateWindow ==
    (RatedValidations /\ redis_client = "connected") =>
        \A k \in 1..Len(v_out) :
            (\A j \in 1..k : ~v_out[j].fault) =>
                (RatePassed(k) <=> k - WindowOpener(k) < RateLimitOf(v_in.action.tool_name))

\* Limit 3 per minute: three pass, the fourth of the window is rejected, and the
\* fifth, a minute after the first, passes.
C11_Witness ==
    /\ RatedValidations /\ redis_client = "connected"
    /\ RateLimitOf(v_in.action.tool_name) = 3
    /\ Len(v_out) = 5
    /\ \A j \in 1..5 : ~v_out[j].fault
    /\ RatePassed(1) /\ RatePassed(2) /\ RatePassed(3) /\ ~RatePassed(4) /\ RatePassed(5)
    /\ v_out[4].at > v_out[1].at
    /\ v_out[5].at = v_out[1].at + RatePeriodOf(v_in.action.tool_name)

\* The calls check_rate_limit has allowed in the window
RECURSIVE AllowedBy(_)
AllowedBy(w) == IF w = 0 THEN 0 ELSE workers[w].allowed + AllowedBy(w - 1)

\* C12: for any interleaving of concurrent check_rate_limit calls on one
\* (user, tool) key, the calls allowed within one window never exceed the limit.
C12_AllowedWithinLimit == AllowedBy(MaxWorkers) <= RateLimitOf(v_in.tool_name)

\* The counter of the validated tool stood at its limit before validation k
AtLimitBefore(k) ==
    /\ RateKey(v_in.user_id, v_in.action.tool_name) \in DOMAIN v_out[k].before
    /\ v_out[k].before[RateKey(v_in.user_id, v_in.action.tool_name)].count
           >= RateLimitOf(v_in.action.tool_name)

\* C13: while the counter store is down (no connection since start-up, or a
\* store operation raising during the check), validate_action does not reject
\* for rate limiting.
C13_FailsOpen ==
    v_in # <<>> =>
        \A k \in 1..Len(v_out) :
            (redis_client # "connected" \/ v_out[k].fault) => RatePassed(k)

\* A validation during a store failure is accepted although the counter stood
\* at the limit.
C13_Witness ==
    /\ RatedValidations
    /\ \E k \in 1..Len(v_out) : v_out[k].fault /\ AtLimitBefore(k) /\ v_out[k].ok

\* Validations i and j were given equal actions and the same counters
SameValidation(i, j) ==
    /\ v_out[i].input = v_out[j].input
    /\ v_out[i].before = v_out[j].before

SameVerdict(i, j) ==
    /\ v_out[i].ok = v_out[j].ok
    /\ v_out[i].error = v_out[j].error
    /\ v_out[i].raised = v_out[j].raised

-----------------------------------------------------------------------------
(* Claims on the policy catalog                                            *)

\* The tools a catalog document permits: those with an enabled entry, and none
\* when the document is absent or unreadable
PermittedTools(document) ==
    IF document = "loaded"
    THEN {t \in DOMAIN tool_configs : tool_configs[t].enabled}
    ELSE {}

\* C14: start-up ends with a catalog whatever the state of the document, and
\* validate_action rejects every action whose tool has no entry in the loaded
\* catalog or a disabled one; with the document absent or unreadable it rejects
\* every action.
C14_UnknownOrDisabledRejected ==
    (v_in # <<>> /\ v_out # <<>>) =>
        /\ v_in.tool_configs # None
        /\ v_out[1].input.tool_name \notin PermittedTools(v_in.document) =>
               /\ ~v_out[1].ok
               /\ ~v_out[1].raised
               /\ v_out[1].error # None
               /\ v_out[1].error[1].kind \in {"not_found", "disabled"}

\* With the document absent an action the catalog would accept is rejected
\* as not found.
C14_Witness ==
    /\ v_in # <<>> /\ v_out # <<>>
    /\ v_in.document = "absent"
    /\ validate_action(v_out[1].input, "u1", <<>>, "none", FALSE).ok
    /\ ~v_out[1].ok
    /\ v_out[1].error[1].kind = "not_found"

-----------------------------------------------------------------------------
(* PlanSpec: the model answers generate_plan with a proposal of up to       *)
(* MaxProposed actions (and the call or the handling of its output may fail), *)
(* create_plan is applied to it, and a ProcessRequest turn is run on it.    *)

MaxProposed == 8         \* actions the model proposes in one answer

\* A proposed action is a known tool's, or names a tool that is not in ToolName
PlanPool ==
    { RawAction("web_search", [query |-> StrV(S_query)], Some("none")),
      RawAction("rm_rf", NoParams, Some("none")) }

PlanProposals == UNION { [1..n -> PlanPool] : n \in 0..MaxProposed }

\* intent.confidence as the rule-based classifier sets it (0.8)
PlanIntentConfidence == 800000

PInit ==
    /\ now = 0
    /\ conversations = <<>>
    /\ store = <<>>
    /\ redis_client \in {"connected", "none"}
    /\ last = NoTurn
    /\ workers = NoWorkers
    /\ executions = <<>>
    /\ v_in \in [actions_data : PlanProposals, needs_confirmation : BOOLEAN,
                 failed : BOOLEAN]
    /\ v_out = <<>>

\* plan = self.planner.create_plan(...)
PCreatePlan ==
    /\ v_out = <<>>
    /\ v_out' = << [plan |-> create_plan(v_in.actions_data, v_in.needs_confirmation,
                                         v_in.failed),
                    confidence |-> create_plan_confidence(v_in.actions_data,
                                       v_in.needs_confirmation, v_in.failed,
                                       PlanIntentConfidence),
                    raised |-> FALSE] >>
    /\ UNCHANGED <<now, conversations, store, redis_client, last, workers, executions, v_in>>

\* A ProcessRequest turn whose intent is planned, on the same answer of the model
PProcessRequest ==
    /\ last = NoTurn
    /\ Finish("ProcessRequest", "s1", "u1", T_what,
              process_request(conversations, store, redis_client, "s1", "u1", T_what,
                              "execute", v_in.actions_data, v_in.needs_confirmation,
                              v_in.failed, FALSE, SinkOk))

PNext == PCreatePlan \/ PProcessRequest

PlanSpec == PInit /\ [][PNext]_vars

-----------------------------------------------------------------------------
(* Claims on the planner                                                   *)

\* The turn of PlanSpec has run and went through create_plan
PlanTurn == last # NoTurn /\ last.plan # None

\* C16: every plan create_plan returns has at most max_actions (5) actions,
\* whatever the number of actions proposed, and so has the plan of the turn.
C16_AtMostFiveActions ==
    v_in # <<>> =>
        /\ v_out # <<>> => Len(v_out[1].plan.actions) <= max_actions
        /\ PlanTurn => Len(last.plan[1].actions) <= max_actions

\* Eight known actions proposed, five in the plan
C16_Witness ==
    /\ v_in # <<>> /\ v_out # <<>>
    /\ Len(v_in.actions_data) = 8
    /\ \A i \in 1..8 : v_in.actions_data[i].tool \in ToolNames
    /\ Len(v_out[1].plan.actions) = 5

\* The proposals among the first max_actions that name a known tool
KnownAmongFirst ==
    Cardinality({i \in 1..Min(max_actions, Len(v_in.actions_data)) :
                    v_in.actions_data[i].tool \in ToolNames})

\* The turn has executed its plan
PlanExecuted == PlanTurn /\ last.response.response = "synthesized"

C18_FailedPlanIsEmpty ==
    (v_in # <<>> /\ v_in.failed) =>
        /\ v_out # <<>> =>
              /\ ~v_out[1].raised
              /\ v_out[1].plan.actions = <<>>
              /\ v_out[1].confidence = 0
        /\ last # NoTurn =>
              /\ ~last.raised
              /\ last.response.success
              /\ last.response.response = "need_details"
              /\ last.validation_errors = <<>>
              /\ store = <<>>
              /\ last.dispatched = <<>>
              /\ Slot(conversations, last.session_id) = None
              /\ ~last.response.needs_confirmation

\* The model had an answer of five known actions asking for a confirmation
\* when the handling of its output failed; the turn has asked for details.
C18_Witness ==
    /\ v_in # <<>> /\ v_in.failed /\ v_in.needs_confirmation
    /\ Len(v_in.actions_data) = 5
    /\ \A i \in 1..5 : v_in.actions_data[i].tool \in ToolNames
    /\ redis_client = "connected"
    /\ v_out # <<>> /\ v_out[1].plan.actions = <<>> /\ v_out[1].confidence = 0
    /\ last # NoTurn /\ last.response.response = "need_details"

-----------------------------------------------------------------------------
(* grpc_server.py: the except clauses of ProcessRequest and ConfirmAction.  *)
(* `crash` names the call of the handler that raises (an exception its      *)
(* callee did not handle), or is "none"; a call that is not reached on the  *)
(* turn's path does not raise.  The raising call leaves no effect; what the *)
(* calls before it did stays.                                               *)

CrashPoints ==
    {"add_user_message", "get_pending_confirmation", "confirm_get_pending",
     "clear_pending_confirmation", "get_context", "classify", "validate_action",
     "generate_error_response", "generate_confirmation_prompt",
     "set_pending_confirmation", "synthesize", "add_assistant_message"}

\* ProcessRequest's `except Exception`: success=False, the generic response,
\* error=error_msg
request_caught(convs, st, dispatched) ==
    Turn(convs, st, dispatched,
         Response(FALSE, "error", ExceptionDetail, None, <<>>, FALSE), None, TRUE)

\* ConfirmAction's `except Exception`: the dict has success, response and
\* action_results, and no error
confirm_caught(convs, st, dispatched) ==
    Turn(convs, st, dispatched,
         [success |-> FALSE, response |-> "confirm_error", action_results |-> <<>>],
         None, TRUE)

\* _handle_confirmation_response with a plan pending; normal is the turn when
\* nothing raises
crash_confirmation(convs, st, session_id, crash, normal) ==
    IF normal.response.response = "reprompt" THEN normal
    ELSE IF crash \in {"confirm_get_pending", "clear_pending_confirmation"}
    THEN confirm_caught(convs, st, <<>>)
    ELSE IF normal.response.response = "cancelled" /\ crash = "add_assistant_message"
    THEN confirm_caught(clear_pending_confirmation(convs, session_id), st, <<>>)
    ELSE IF /\ normal.response.response = "synthesized"
            /\ crash \in {"synthesize", "add_assistant_message"}
    THEN confirm_caught(clear_pending_confirmation(convs, session_id), st,
                        normal.dispatched)
    ELSE normal

\* ProcessRequest with nothing pending; normal is the turn when nothing raises
crash_stage(convs, st, session_id, user_id, crash, normal) ==
    IF crash \in {"get_context", "classify"} THEN request_caught(convs, st, <<>>)
    ELSE IF normal.response.response \in {"clarification", "conversation", "need_details"}
    THEN IF crash = "add_assistant_message" THEN request_caught(convs, st, <<>>)
         ELSE normal
    ELSE IF normal.raised THEN normal
    ELSE IF crash = "validate_action" THEN request_caught(convs, st, <<>>)
    ELSE IF normal.response.response = "error_response"
    THEN IF crash \in {"generate_error_response", "add_assistant_message"}
         THEN request_caught(convs, normal.store, <<>>)
         ELSE normal
    ELSE IF normal.response.response = "confirmation_prompt"
    THEN IF crash \in {"generate_confirmation_prompt", "set_pending_confirmation"}
         THEN request_caught(convs, normal.store, <<>>)
         ELSE IF crash = "add_assistant_message"
         THEN request_caught(
                  set_pending_confirmation(convs, session_id, user_id, normal.plan[1]),
                  normal.store, <<>>)
         ELSE normal
    ELSE IF crash \in {"synthesize", "add_assistant_message"}
    THEN request_caught(convs, normal.store, normal.dispatched)
    ELSE normal

\* ProcessRequest once get_pending_confirmation has returned g
crash_pending(g, st, client, session_id, user_id, user_input, intent, actions_data, needs_confirmation, crash) ==
    IF g.plan # None
    THEN crash_confirmation(g.convs, st, session_id, crash,
             handle_confirmation_response(g.convs, st, session_id, user_id, user_input,
                                          SinkOk))
    ELSE crash_stage(g.convs, st, session_id, user_id, crash,
             request_stage(g.convs, st, client, session_id, user_id, intent,
                           actions_data, needs_confirmation, FALSE, FALSE, SinkOk))

\* ProcessRequest in which the call `crash` raises
crash_request(convs0, st, client, session_id, user_id, user_input, intent, actions_data, needs_confirmation, crash) ==
    IF crash = "add_user_message" THEN request_caught(convs0, st, <<>>)
    ELSE IF crash = "get_pending_confirmation"
    THEN request_caught(add_user_message(convs0, session_id, user_id, user_input), st, <<>>)
    ELSE crash_pending(
             get_pending_confirmation(
                 add_user_message(convs0, session_id, user_id, user_input), session_id),
             st, client, session_id, user_id, user_input, intent, actions_data,
             needs_confirmation, crash)

-----------------------------------------------------------------------------
(* BoundarySpec: ProcessRequest calls on one session, in each of which one  *)
(* call of the handler may raise.                                           *)

\* Proposals whose plan is executed, parked (by policy, or by the default level
\* of an action that declares none), rejected, and one without actions
BoundaryProposals ==
    { << RawAction("web_search", [query |-> StrV(S_query)], Some("none")) >>,
      << RawAction("file_write", [path |-> StrV(S_ws_file), content |-> StrV(S_query)],
                   Some("none")) >>,
      << RawAction("file_write", [path |-> StrV(S_etc_passwd), content |-> StrV(S_query)],
                   Some("none")) >>,
      << RawAction("web_search", [query |-> StrV(S_query)], None) >>,
      << RawAction("web_search", [query |-> StrV(S_query)], Some("none")),
         RawAction("web_search", [query |-> StrV(S_query)], Some("none")) >>,
      << >> }

\* The intent types the classifier may return: the two that are answered
\* without a plan, and two of the others
BoundaryIntents == {"clarification", "conversation", "execute", "unknown"}

BRequest ==
    /\ last = NoTurn
    /\ \E session_id \in Sessions, user_id \in Users, user_input \in Texts :
         /\ HistoryLen(session_id) + 2 <= MaxMessages
         /\ \E intent \in BoundaryIntents, actions_data \in BoundaryProposals,
               needs_confirmation \in BOOLEAN, crash \in CrashPoints \cup {"none"} :
              /\ needs_confirmation => crash = "none"
              /\ Finish("ProcessRequest", session_id, user_id,
                        [crash |-> crash, intent |-> intent,
                         needs_confirmation |-> needs_confirmation,
                         store |-> store],
                        crash_request(conversations, store, redis_client, session_id,
                                      user_id, user_input, intent, actions_data,
                                      needs_confirmation, crash))

BNext == BRequest \/ Deliver

BoundarySpec == Init /\ [][BNext]_vars

-----------------------------------------------------------------------------
(* Claim on the orchestrator boundary                                      *)

\* A ProcessRequest turn of BoundarySpec in which a call raised
CrashedTurn ==
    /\ last # NoTurn
    /\ last.op = "ProcessRequest"
    /\ last.raised

\* C19: a ProcessRequest turn in which a call raised returns success=false with
\* a generic response and an error detail.
C19_CaughtWithDetail ==
    CrashedTurn =>
        /\ ~last.response.success
        /\ last.response.response \in {"error", "confirm_error"}
        /\ "error" \in DOMAIN last.response
        /\ last.response.error # <<>>

-----------------------------------------------------------------------------
(* llm/client.py: LLMClient.generate under                                  *)
(* @retry(stop=stop_after_attempt(3), wait=wait_exponential(min=1, max=10)) *)
(* tenacity's retry without a `retry` argument retries after any exception, *)
(* and without `reraise` raises RetryError when it stops.                   *)

stop_after_attempt == 3
wait_min == 1
wait_max == 10

\* What the provider does with one chat.completions.create call: it answers
\* with JSON text, with text that is no JSON, or the call raises: a failure
\* that may pass (connection, timeout, rate limit) or one that will not
\* (the key or the request is refused)
Answers == {"json", "text", "transient", "refused"}

\* One run of generate's body: the content returned, or the exception raised
generate_body(json_mode, answer) ==
    IF answer \in {"transient", "refused"} THEN [raised |-> TRUE, value |-> answer]
    ELSE IF json_mode /\ answer = "text" THEN [raised |-> TRUE, value |-> "ValueError"]
    ELSE [raised |-> FALSE, value |-> answer]

\* tenacity's default retry condition, retry_if_exception_type(Exception)
retry_on(exception) == TRUE

RECURSIVE Pow2(_)
Pow2(n) == IF n = 0 THEN 1 ELSE 2 * Pow2(n - 1)

\* wait_exponential(min=1, max=10) after attempt number n: 2^(n-1) seconds,
\* kept within min and max
wait_exponential(n) == Max(Max(0, wait_min), Min(Pow2(n - 1), wait_max))

-----------------------------------------------------------------------------
(* GenerateSpec: one generate call; the provider's answer to each attempt   *)
(* is drawn beforehand.                                                     *)

GInit ==
    /\ now = 0
    /\ conversations = <<>>
    /\ store = <<>>
    /\ redis_client = "none"
    /\ last = NoTurn
    /\ workers = [pc |-> "attempt"]
    /\ executions = <<>>
    /\ v_in \in [json_mode : BOOLEAN, answers : [1..stop_after_attempt -> Answers]]
    /\ v_out = <<>>

GFrame == UNCHANGED <<conversations, store, redis_client, executions, v_in>>

\* generate's body runs once more; v_out keeps what each run made
GAttemptWith(r) ==
    /\ v_out' = Append(v_out, [answer |-> v_in.answers[Len(v_out) + 1],
                               raised |-> r.raised, value |-> r.value, at |-> now])
    /\ IF r.raised
       THEN /\ workers' = [workers EXCEPT !.pc = "failed"]
            /\ last' = last
       ELSE /\ workers' = [workers EXCEPT !.pc = "done"]
            /\ last' = [op |-> "generate", raised |-> FALSE, value |-> r.value]

GAttempt ==
    /\ workers.pc = "attempt"
    /\ GAttemptWith(generate_body(v_in.json_mode, v_in.answers[Len(v_out) + 1]))
    /\ now' = now
    /\ GFrame

\* tenacity after a run that raised: the attempts are used up and RetryError is
\* raised ...
GStop ==
    /\ workers.pc = "failed"
    /\ retry_on(v_out[Len(v_out)].value)
    /\ Len(v_out) >= stop_after_attempt
    /\ workers' = [workers EXCEPT !.pc = "done"]
    /\ last' = [op |-> "generate", raised |-> TRUE, value |-> "RetryError"]
    /\ UNCHANGED <<now, v_out>>
    /\ GFrame

\* ... or it sleeps and runs the body again
GRetry ==
    /\ workers.pc = "failed"
    /\ retry_on(v_out[Len(v_out)].value)
    /\ Len(v_out) < stop_after_attempt
    /\ now' = now + wait_exponential(Len(v_out))
    /\ workers' = [workers EXCEPT !.pc = "attempt"]
    /\ UNCHANGED <<last, v_out>>
    /\ GFrame

GNext == GAttempt \/ GStop \/ GRetry

GenerateSpec == GInit /\ [][GNext]_vars

-----------------------------------------------------------------------------
(* Claim on the model client                                               *)

\* C20: in json_mode an answer that is no JSON fails the call at once, no
\* attempt following it; an attempt is made again only after a failure that
\* may pass; a call makes at most 3 attempts.
C20_ParseFailureNotRetried ==
    (v_in # <<>> /\ v_out # <<>>) =>
        /\ v_in.json_mode =>
              \A k \in 1..Len(v_out) : v_out[k].value = "ValueError" => Len(v_out) = k
        /\ \A k \in 1..(Len(v_out) - 1) : v_out[k].value = "transient"
        /\ Len(v_out) <= 3

-----------------------------------------------------------------------------
(* ExecuteSpec: _execute_plan on a plan of up to MaxExecuted actions, the   *)
(* answer of the service to each call drawn beforehand.                     *)

MaxExecuted == 3         \* actions of the plan that is executed

\* Actions of the web service and of the tool executor
ExecutedPool ==
    { ToolAction("web_search", [query |-> StrV(S_query)], "none"),
      ToolAction("browser_navigate", [url |-> StrV(S_url_ok)], "soft"),
      ToolAction("file_write", [path |-> StrV(S_ws_file), content |-> StrV(S_query)],
                 "hard") }

ExecutedPlans ==
    { AgentPlan(a, FALSE) : a \in UNION { [1..n -> ExecutedPool] : n \in 0..MaxExecuted } }

EInit ==
    /\ now = 0
    /\ conversations = <<>>
    /\ store = <<>>
    /\ redis_client = "none"
    /\ last = NoTurn
    /\ workers = NoWorkers
    /\ executions = <<>>
    /\ v_in \in [plan : ExecutedPlans, answers : [1..MaxExecuted -> SinkAnswers]]
    /\ v_out = <<>>

\* action_results = self._execute_plan(plan, user_id)
EExecuteWith(r) ==
    /\ executions' = r.dispatched
    /\ v_out' = <<r.results>>

EExecute ==
    /\ v_out = <<>>
    /\ EExecuteWith(execute_plan(v_in.plan,
                                 [i \in 1..MaxExecuted |-> action_success(v_in.answers[i])]))
    /\ UNCHANGED <<now, conversations, store, redis_client, last, workers, v_in>>

ENext == EExecute

ExecuteSpec == EInit /\ [][ENext]_vars

-----------------------------------------------------------------------------
(* Claim on plan execution                                                 *)

\* C21: executing a plan sends one call per action, in plan order, and yields
\* one ToolActionResult per action in the same order; the result of an action
\* whose service answers failure or raises has success=false, that of an action
\* whose service answers success has success=true, and the actions after a
\* failed one are sent all the same.
C21_OneResultPerAction ==
    (v_in # <<>> /\ v_out # <<>>) =>
        /\ Len(executions) = Len(v_in.plan.actions)
        /\ Len(v_out[1]) = Len(v_in.plan.actions)
        /\ \A i \in 1..Len(v_in.plan.actions) :
              /\ executions[i].action = v_in.plan.actions[i]
              /\ v_out[1][i].tool_name = v_in.plan.actions[i].tool_name
              /\ v_out[1][i].success <=> v_in.answers[i] = "ok"

\* Three actions; the service of the first raises, that of the second answers
\* failure, and the third is sent and succeeds.
C21_Witness ==
    /\ v_in # <<>> /\ v_out # <<>>
    /\ Len(v_in.plan.actions) = 3
    /\ v_in.answers[1] = "raises" /\ v_in.answers[2] = "failure" /\ v_in.answers[3] = "ok"
    /\ Len(executions) = 3
    /\ ~v_out[1][1].success /\ ~v_out[1][2].success /\ v_out[1][3].success

-----------------------------------------------------------------------------
(* Claims on the turn's branches                                           *)

\* A ProcessRequest turn of BoundarySpec in which nothing raised and whose plan
\* passed validation
ValidatedTurn ==
    /\ last # NoTurn
    /\ last.op = "ProcessRequest"
    /\ last.input.crash = "none"
    /\ last.plan # None
    /\ last.plan[1].actions # <<>>
    /\ ~last.raised
    /\ last.validation_errors = <<>>

\* C22: a turn with nothing pending whose plan passed validation with every
\* action at level NONE, the model not having asked for a confirmation, sends
\* every action of the plan on that turn, in order, returns no confirmation
\* prompt and leaves the pending slot empty.
C22_NoneExecutesAtOnce ==
    (/\ ValidatedTurn
     /\ ~last.input.needs_confirmation
     /\ \A i \in 1..Len(last.plan[1].actions) :
           last.plan[1].actions[i].confirmation_level = "none") =>
        /\ Len(last.dispatched) = Len(last.plan[1].actions)
        /\ \A i \in 1..Len(last.dispatched) :
              last.dispatched[i].action = last.plan[1].actions[i]
        /\ last.response.success
        /\ last.response.response = "synthesized"
        /\ ~last.response.needs_confirmation
        /\ SlotNow = None

\* One web_search action declared NONE, on a fresh session: sent on the turn
C22_Witness ==
    /\ ValidatedTurn
    /\ ~last.input.needs_confirmation
    /\ last.slot_before = None
    /\ Len(last.plan[1].actions) = 1
    /\ last.plan[1].actions[1].tool_name = "web_search"
    /\ last.plan[1].actions[1].confirmation_level = "none"
    /\ Len(last.dispatched) = 1
    /\ last.dispatched[1].call.method = "web_search"
    /\ last.response.response = "synthesized"

\* A ProcessRequest turn of BoundarySpec that found nothing pending and in
\* which nothing raised
ClassifiedTurn ==
    /\ last # NoTurn
    /\ last.op = "ProcessRequest"
    /\ last.input.crash = "none"
    /\ last.slot_before = None

\* C23: on a turn with nothing pending, an intent classified CLARIFICATION or
\* CONVERSATION is answered without calling the planner, and nothing is
\* validated (no counter is written), sent or parked; every other intent type,
\* UNKNOWN among them, goes to the planner.
C23_TalkSkipsPlanning ==
    ClassifiedTurn =>
        IF last.input.intent \in {"clarification", "conversation"}
        THEN /\ last.plan = None
             /\ last.response.success
             /\ last.response.response = last.input.intent
             /\ last.validation_errors = <<>>
             /\ store = last.input.store
             /\ last.dispatched = <<>>
             /\ SlotNow = None
        ELSE last.plan # None

\* A CONVERSATION turn whose model would have proposed a web search, with
\* counters in the store from an earlier turn
C23_Witness ==
    /\ ClassifiedTurn
    /\ last.input.intent = "conversation"
    /\ last.plan = None
    /\ store # <<>>
    /\ HistoryLen(last.session_id) = 4

-----------------------------------------------------------------------------
(* The conversation manager's operations, one after another, on two        *)
(* sessions                                                                *)

MaxOps == 3              \* ManagerSpec: operations and clock steps in a run

ManagerSessions == {"s1", "s2"}

\* Clock steps: past the pending window, past the idle timeout
ManagerTicks == {pending_window + 1, conversation_timeout + 1}

\* The plan that is parked
ManagerPlan ==
    AgentPlan(<< ToolAction("file_write",
                            [path |-> StrV(S_ws_file), content |-> StrV(S_query)],
                            "hard") >>, TRUE)

\* What the model proposes on a turn
ManagerProposals ==
    { << RawAction("web_search", [query |-> StrV(S_query)], Some("none")) >>,
      << RawAction("file_write", [path |-> StrV(S_ws_file), content |-> StrV(S_query)],
                   Some("none")) >> }

ManagerPreferences == { [voice |-> "fast"], [voice |-> "slow", lang |-> "en"] }

\* The dict after n calls of add_user_message for one session at the present
\* time
Preloaded(session_id, n) ==
    [s \in {session_id} |->
        [ConversationState(session_id, "u1") EXCEPT
            !.messages = [i \in 1..n |->
                             Message("user", IF i % 2 = 0 THEN T_what ELSE T_maybe, None)]]]

MInit ==
    /\ now = 0
    /\ conversations \in {<<>>, Preloaded("s1", context_messages + 1)}
    /\ store = <<>>
    /\ redis_client = "connected"
    /\ last = NoTurn
    /\ workers = NoWorkers
    /\ executions = <<>>
    /\ v_in = <<>>
    /\ v_out = 0

\* An operation has run: the dict it leaves and the record of the call
MFinish(op, session_id, convs, result) ==
    /\ v_out < MaxOps
    /\ conversations' = convs
    /\ last' = [op |-> op, session_id |-> session_id, before |-> conversations,
                at |-> now, result |-> result]
    /\ v_out' = v_out + 1
    /\ UNCHANGED <<now, redis_client, workers, executions, v_in>>

MAddUserMessage ==
    \E session_id \in ManagerSessions :
       /\ MFinish("add_user_message", session_id,
                  add_user_message(conversations, session_id, "u1", T_what), None)
       /\ UNCHANGED store

MAddAssistantMessage ==
    \E session_id \in ManagerSessions, plan \in {None, Some(ManagerPlan)} :
       /\ MFinish("add_assistant_message", session_id,
                  add_assistant_message(conversations, session_id, "u1", T_yes, plan),
                  None)
       /\ UNCHANGED store

MSetPendingConfirmation ==
    \E session_id \in ManagerSessions :
       /\ MFinish("set_pending_confirmation", session_id,
                  set_pending_confirmation(conversations, session_id, "u1", ManagerPlan),
                  None)
       /\ UNCHANGED store

\* The slot of a session as it is now
PendingOf(session_id) ==
    IF session_id \in DOMAIN conversations
    THEN conversations[session_id].pending_confirmation ELSE None

MGetPendingWith(session_id, r) ==
    /\ MFinish("get_pending_confirmation", session_id, r.convs, r.plan)
    /\ UNCHANGED store

\* The snapshot is read back, or reading it raises
MGetPendingConfirmation ==
    \E session_id \in ManagerSessions, unreadable \in Unreadable \cup {"none"} :
       /\ unreadable # "none" => PendingOf(session_id) # None
       /\ MGetPendingWith(session_id,
                          get_pending_confirmation_read(conversations, session_id,
                                                        unreadable))

MClearPendingConfirmation ==
    \E session_id \in ManagerSessions :
       /\ MFinish("clear_pending_confirmation", session_id,
                  clear_pending_confirmation(conversations, session_id), None)
       /\ UNCHANGED store

MGetContextWith(session_id, r) ==
    /\ MFinish("get_context", session_id, r.convs, Some(r.context))
    /\ UNCHANGED store

MGetContext ==
    \E session_id \in ManagerSessions :
       MGetContextWith(session_id, get_context(conversations, session_id, "u1"))

MUpdateUserPreferences ==
    \E session_id \in ManagerSessions, preferences \in ManagerPreferences :
       /\ MFinish("update_user_preferences", session_id,
                  update_user_preferences(conversations, session_id, preferences), None)
       /\ UNCHANGED store

MSetCurrentTask ==
    \E session_id \in ManagerSessions :
       /\ MFinish("set_current_task", session_id,
                  set_current_task(conversations, session_id, Some("task")), None)
       /\ UNCHANGED store

MEndConversation ==
    \E session_id \in ManagerSessions :
       /\ MFinish("end_conversation", session_id,
                  end_conversation(conversations, session_id), None)
       /\ UNCHANGED store

MTurnWith(session_id, turn) ==
    /\ MFinish("ProcessRequest", session_id, turn.convs, Some(turn.response))
    /\ store' = turn.store

\* A whole ProcessRequest turn on one of the sessions
MProcessRequest ==
    \E session_id \in ManagerSessions, user_input \in {T_what, T_yes},
       actions_data \in ManagerProposals :
       MTurnWith(session_id,
                 process_request(conversations, store, redis_client, session_id, "u1",
                                 user_input, "execute", actions_data, FALSE, FALSE,
                                 FALSE, SinkOk))

MConfirmWith(session_id, confirmed, turn) ==
    /\ MFinish("ConfirmAction", session_id, turn.convs,
               Some([response |-> turn.response, dispatched |-> turn.dispatched,
                     confirmed |-> confirmed]))
    /\ store' = turn.store

\* A whole ConfirmAction call on one of the sessions; reading the snapshot
\* back may raise
MConfirmAction ==
    \E session_id \in ManagerSessions, confirmed \in BOOLEAN,
       unreadable \in Unreadable \cup {"none"} :
       /\ unreadable # "none" => PendingOf(session_id) # None
       /\ MConfirmWith(session_id, confirmed,
                       confirm_outcome(store, session_id, "u1", confirmed, SinkOk,
                           get_pending_confirmation_read(conversations, session_id,
                                                         unreadable)))

MTick ==
    /\ v_out < MaxOps
    /\ \E d \in ManagerTicks : now' = now + d
    /\ v_out' = v_out + 1
    /\ UNCHANGED <<conversations, store, redis_client, last, workers, executions, v_in>>

MNext ==
    \/ MAddUserMessage
    \/ MAddAssistantMessage
    \/ MSetPendingConfirmation
    \/ MGetPendingConfirmation
    \/ MClearPendingConfirmation
    \/ MGetContext
    \/ MUpdateUserPreferences
    \/ MSetCurrentTask
    \/ MEndConversation
    \/ MProcessRequest
    \/ MConfirmAction
    \/ MTick

ManagerSpec == MInit /\ [][MNext]_vars

\* The call recorded in last is the operation op
Called(op) == last # NoTurn /\ last.op = op

\* The session of the call as it was before the call, and as it is now
Before(session_id) ==
    IF session_id \in DOMAIN last.before THEN Some(last.before[session_id]) ELSE None

After(session_id) ==
    IF session_id \in DOMAIN conversations THEN Some(conversations[session_id]) ELSE None

-----------------------------------------------------------------------------
(* Claims on the conversation manager's operations                         *)

\* The last n elements of a sequence, in order
LastN(seq, n) ==
    [i \in 1..Min(n, Len(seq)) |-> seq[Len(seq) - Min(n, Len(seq)) + i]]

\* C26: get_context changes the state of no session (it creates none, removes
\* none, and changes no history, preferences, current task or pending
\* confirmation) and returns the most recent 10 messages of the session in
\* order, with its preferences and current task.
C26_GetContextReadOnly ==
    Called("get_context") =>
        /\ conversations = last.before
        /\ last.session_id \in DOMAIN conversations =>
              /\ last.result[1].conversation_history =
                    LastN(conversations[last.session_id].messages, 10)
              /\ last.result[1].user_preferences =
                    conversations[last.session_id].user_preferences
              /\ last.result[1].current_task =
                    conversations[last.session_id].current_task

\* The call recorded in last is add_user_message or add_assistant_message
Added == Called("add_user_message") \/ Called("add_assistant_message")

\* The history and the slot of a session in a dict, empty for a session the
\* dict does not hold
MessagesIn(convs, session_id) ==
    IF session_id \in DOMAIN convs THEN convs[session_id].messages ELSE <<>>

PendingIn(convs, session_id) ==
    IF session_id \in DOMAIN convs THEN convs[session_id].pending_confirmation ELSE None

\* The history after the call is the history before it with one message of the
\* given role at the end
AppendedTo(prior, role) ==
    LET messages == MessagesIn(conversations, last.session_id)
    IN  /\ Len(messages) = Len(prior) + 1
        /\ SubSeq(messages, 1, Len(prior)) = prior
        /\ messages[Len(messages)].role = role

RoleAdded == IF last.op = "add_user_message" THEN "user" ELSE "assistant"

\* At the time of the call, the session had been idle for longer than the
\* timeout
IdleAtCall(session_id) ==
    /\ session_id \in DOMAIN last.before
    /\ last.at - last.before[session_id].last_activity > conversation_timeout

IdledOut == IdleAtCall(last.session_id)

\* C27 as stated: add_user_message and add_assistant_message each append
\* exactly one message at the end of the session's history, keep all earlier
\* messages in their order, and leave the pending-confirmation slot unchanged,
\* with and without a plan parked.
C27_AppendsOne ==
    Added =>
        /\ AppendedTo(MessagesIn(last.before, last.session_id), RoleAdded)
        /\ PendingIn(conversations, last.session_id) =
              PendingIn(last.before, last.session_id)

\* C27 amended: on a session that has not been idle for longer than the idle
\* timeout, each of the two appends exactly one message at the end, keeps the
\* earlier messages in order and leaves the slot unchanged, with and without a
\* plan parked; on a session that has idled out the message is the only one of
\* a new session whose slot is empty.
C27_AppendsOneUnlessIdle ==
    Added =>
        IF IdledOut
        THEN /\ AppendedTo(<<>>, RoleAdded)
             /\ PendingIn(conversations, last.session_id) = None
        ELSE /\ AppendedTo(MessagesIn(last.before, last.session_id), RoleAdded)
             /\ PendingIn(conversations, last.session_id) =
                   PendingIn(last.before, last.session_id)

\* An assistant message added to a session with history and a plan parked
C27_Witness ==
    /\ Called("add_assistant_message")
    /\ ~IdledOut
    /\ Len(MessagesIn(last.before, last.session_id)) >= 1
    /\ PendingIn(last.before, last.session_id) # None
    /\ Len(MessagesIn(conversations, last.session_id)) =
          Len(MessagesIn(last.before, last.session_id)) + 1

\* C28: clear_pending_confirmation leaves the slot of the session empty,
\* whether or not the parked plan had expired, so that a get_pending_confirmation
\* that follows returns none; on a session the manager does not hold it changes
\* nothing and creates no session.
C28_ClearLeavesIdle ==
    Called("clear_pending_confirmation") =>
        /\ PendingIn(conversations, last.session_id) = None
        /\ get_pending_confirmation(conversations, last.session_id).plan = None
        /\ last.session_id \notin DOMAIN last.before => conversations = last.before

\* A plan parked and cleared within the pending window
C28_Witness ==
    /\ Called("clear_pending_confirmation")
    /\ PendingIn(last.before, last.session_id) # None
    /\ last.at - ParkedAt(PendingIn(last.before, last.session_id)) <= pending_window
    /\ PendingIn(conversations, last.session_id) = None

\* The turn was the first of a session: it sent nothing, and the history of
\* the session is the user's message and the reply
EndedTurnIsFirst(turn) ==
    /\ turn.dispatched = <<>>
    /\ Len(turn.convs[last.session_id].messages) = 2
    /\ turn.convs[last.session_id].messages[1].role = "user"
    /\ turn.convs[last.session_id].messages[2].role = "assistant"

\* C30: after end_conversation(s) the manager does not hold s: its history and
\* its parked plan are gone, get_pending_confirmation for s finds nothing, and
\* the next message for s starts a new session whose history is that message
\* alone; on a session the manager does not hold the call changes nothing.
C30_EndDiscards ==
    Called("end_conversation") =>
        /\ last.session_id \notin DOMAIN conversations
        /\ get_pending_confirmation(conversations, last.session_id).plan = None
        /\ Len(add_user_message(conversations, last.session_id, "u1", T_what)
                  [last.session_id].messages) = 1
        /\ PendingIn(add_user_message(conversations, last.session_id, "u1", T_what),
                     last.session_id) = None
        /\ confirm_action(conversations, store, last.session_id, "u1", TRUE,
                          SinkOk).dispatched = <<>>
        /\ EndedTurnIsFirst(process_request(conversations, store, redis_client,
                                            last.session_id, "u1", T_yes, "execute",
                                            <<>>, FALSE, FALSE, FALSE, SinkOk))
        /\ last.session_id \notin DOMAIN last.before => conversations = last.before

\* A session with history and a plan parked within the window is ended
C30_Witness ==
    /\ Called("end_conversation")
    /\ Len(MessagesIn(last.before, last.session_id)) >= 1
    /\ PendingIn(last.before, last.session_id) # None
    /\ last.at - ParkedAt(PendingIn(last.before, last.session_id)) <= pending_window
    /\ last.session_id \notin DOMAIN conversations

\* C29: an operation or a turn on one session leaves every other session as it
\* was (history, preferences, current task, pending confirmation), apart from
\* removing those that have been idle for longer than the idle timeout, and
\* creates no other session.
C29_SessionsIndependent ==
    last # NoTurn =>
        \A other \in ManagerSessions \ {last.session_id} :
           IF other \in DOMAIN last.before
           THEN \/ /\ other \in DOMAIN conversations
                   /\ conversations[other] = last.before[other]
                \/ /\ other \notin DOMAIN conversations
                   /\ IdleAtCall(other)
           ELSE other \notin DOMAIN conversations

\* A turn on one session while the other holds history, preferences and a
\* parked plan
C29_Witness ==
    /\ Called("ProcessRequest")
    /\ last.session_id = "s2"
    /\ Len(MessagesIn(last.before, "s1")) >= 1
    /\ PendingIn(last.before, "s1") # None
    /\ MessagesIn(conversations, "s2") # <<>>
    /\ conversations["s1"] = last.before["s1"]

-----------------------------------------------------------------------------
(* SweepSpec: worker threads each handle one add_user_message, step by     *)
(* step: the sweep's scan of the dict, its deletions, the lookup, the      *)
(* creation, the fetch of the session object and the append.  No step      *)
(* takes a lock.  The dict keeps its entries in insertion order, a deleted  *)
(* entry leaving a hole; its iterator raises when the number of keys has    *)
(* changed since the loop began.  v_in holds the entries and the identity   *)
(* of the object under each key, v_out the number of objects created, and   *)
(* executions the deletions the sweeps have made.                           *)

IdleSweeper ==
    [pc |-> "idle", session_id |-> "none", size |-> 0, pos |-> 0, expired |-> <<>>,
     held |-> 0]

\* A session that was last active at time 0, with two messages
IdleSession(session_id) ==
    [Preloaded(session_id, 2)[session_id] EXCEPT !.last_activity = 0]

\* The dicts the workers start on: s1 has idled out; s2 is not there, is in
\* use, or has idled out too
SweepDicts ==
    { [s \in {"s1"} |-> IdleSession(s)],
      [s \in ManagerSessions |->
          IF s = "s1" THEN IdleSession(s) ELSE ConversationState(s, "u1")],
      [s \in ManagerSessions |-> IdleSession(s)] }

SInit ==
    /\ now = conversation_timeout + 1
    /\ conversations \in SweepDicts
    /\ store = <<>>
    /\ redis_client = "none"
    /\ last = NoTurn
    /\ workers = [w \in Workers |-> IdleSweeper]
    /\ executions = <<>>
    /\ v_in = [entries |-> IF DOMAIN conversations = {"s1"} THEN <<"s1">>
                           ELSE <<"s1", "s2">>,
               ids |-> [s \in DOMAIN conversations |-> IF s = "s1" THEN 1 ELSE 2]]
    /\ v_out = Cardinality(DOMAIN conversations)

SFrame == UNCHANGED <<now, store, redis_client, last>>

\* The entries an iterator at position pos has still to visit
LiveFrom(entries, pos) == {i \in pos..Len(entries) : entries[i] # "deleted"}

FirstOf(S) == CHOOSE i \in S : \A j \in S : i <= j

\* add_user_message is called; get_or_create_conversation enters the sweep and
\* the for loop takes an iterator over self.conversations.items()
SBegin(w) ==
    /\ workers[w].pc = "idle"
    /\ \E session_id \in ManagerSessions :
         workers' = [workers EXCEPT ![w] =
                        [@ EXCEPT !.pc = "scan", !.session_id = session_id,
                                  !.size = Cardinality(DOMAIN conversations),
                                  !.pos = 1]]
    /\ UNCHANGED <<conversations, executions, v_in, v_out>>
    /\ SFrame

\* One pass of the first loop: the iterator's next, then is_expired on the
\* session it yields
scan_step(worker, convs, entries) ==
    IF Cardinality(DOMAIN convs) # worker.size
    THEN [worker EXCEPT !.pc = "raised"]
    ELSE IF LiveFrom(entries, worker.pos) = {}
    THEN [worker EXCEPT !.pc = "delete"]
    ELSE [worker EXCEPT
             !.pos = FirstOf(LiveFrom(entries, worker.pos)) + 1,
             !.expired =
                IF is_expired(convs[entries[FirstOf(LiveFrom(entries, worker.pos))]],
                              conversation_timeout)
                THEN Append(worker.expired,
                            entries[FirstOf(LiveFrom(entries, worker.pos))])
                ELSE worker.expired]

SScan(w) ==
    /\ workers[w].pc = "scan"
    /\ workers' = [workers EXCEPT ![w] = scan_step(workers[w], conversations, v_in.entries)]
    /\ UNCHANGED <<conversations, executions, v_in, v_out>>
    /\ SFrame

\* One pass of the second loop: del self.conversations[session_id]
SDelete(w) ==
    /\ workers[w].pc = "delete"
    /\ IF workers[w].expired = <<>>
       THEN /\ workers' = [workers EXCEPT ![w].pc = "lookup"]
            /\ UNCHANGED <<conversations, executions, v_in>>
       ELSE IF Head(workers[w].expired) \notin DOMAIN conversations
       THEN /\ workers' = [workers EXCEPT ![w].pc = "raised"]
            /\ UNCHANGED <<conversations, executions, v_in>>
       ELSE /\ workers' = [workers EXCEPT ![w].expired = Tail(@)]
            /\ conversations' =
                  [s \in DOMAIN conversations \ {Head(workers[w].expired)} |->
                      conversations[s]]
            /\ v_in' = [entries |-> [i \in 1..Len(v_in.entries) |->
                                        IF v_in.entries[i] = Head(workers[w].expired)
                                        THEN "deleted" ELSE v_in.entries[i]],
                        ids |-> [s \in DOMAIN conversations \ {Head(workers[w].expired)} |->
                                    v_in.ids[s]]]
            /\ executions' =
                  Append(executions,
                         [worker |-> w, session_id |-> Head(workers[w].expired),
                          idle |-> is_expired(conversations[Head(workers[w].expired)],
                                              conversation_timeout),
                          in_turn |-> \E v \in Workers \ {w} :
                                         /\ workers[v].session_id =
                                               Head(workers[w].expired)
                                         /\ workers[v].pc \in {"create", "fetch", "append"}])
    /\ UNCHANGED v_out
    /\ SFrame

\* if session_id not in self.conversations
SLookup(w) ==
    /\ workers[w].pc = "lookup"
    /\ workers' = [workers EXCEPT ![w].pc =
                      IF workers[w].session_id \in DOMAIN conversations
                      THEN "fetch" ELSE "create"]
    /\ UNCHANGED <<conversations, executions, v_in, v_out>>
    /\ SFrame

\* self.conversations[session_id] = ConversationState(...)
SCreate(w) ==
    /\ workers[w].pc = "create"
    /\ workers' = [workers EXCEPT ![w].pc = "fetch"]
    /\ conversations' =
          [s \in DOMAIN conversations \cup {workers[w].session_id} |->
              IF s = workers[w].session_id
              THEN ConversationState(workers[w].session_id, "u1")
              ELSE conversations[s]]
    /\ v_in' = [entries |-> IF workers[w].session_id \in DOMAIN conversations
                            THEN v_in.entries
                            ELSE Append(v_in.entries, workers[w].session_id),
                ids |-> [s \in DOMAIN conversations \cup {workers[w].session_id} |->
                            IF s = workers[w].session_id THEN v_out + 1
                            ELSE v_in.ids[s]]]
    /\ v_out' = v_out + 1
    /\ UNCHANGED executions
    /\ SFrame

\* return self.conversations[session_id]
SFetch(w) ==
    /\ workers[w].pc = "fetch"
    /\ workers' = [workers EXCEPT ![w] =
                      IF workers[w].session_id \in DOMAIN conversations
                      THEN [@ EXCEPT !.pc = "append",
                                     !.held = v_in.ids[workers[w].session_id]]
                      ELSE [@ EXCEPT !.pc = "missing"]]
    /\ UNCHANGED <<conversations, executions, v_in, v_out>>
    /\ SFrame

\* The object the worker holds is the one the dict holds for its session
HeldInDict(w) ==
    /\ workers[w].session_id \in DOMAIN conversations
    /\ v_in.ids[workers[w].session_id] = workers[w].held

\* conversation.add_message(message), on the object the worker holds
SAppend(w) ==
    /\ workers[w].pc = "append"
    /\ workers' = [workers EXCEPT ![w].pc = IF HeldInDict(w) THEN "done" ELSE "lost"]
    /\ conversations' =
          IF HeldInDict(w)
          THEN [conversations EXCEPT ![workers[w].session_id] =
                   add_message(@, Message("user", T_what, None))]
          ELSE conversations
    /\ UNCHANGED <<executions, v_in, v_out>>
    /\ SFrame

SNext ==
    \E w \in Workers :
        \/ SBegin(w)
        \/ SScan(w)
        \/ SDelete(w)
        \/ SLookup(w)
        \/ SCreate(w)
        \/ SFetch(w)
        \/ SAppend(w)

SweepSpec == SInit /\ [][SNext]_vars

-----------------------------------------------------------------------------
(* Claims on the idle sweep among concurrent calls                         *)

\* C24: the idle sweep removes exactly the sessions whose last_activity is
\* older than the idle timeout and leaves every other session as it is, also
\* while other threads read and write sessions: every sweep runs to its end,
\* and every session a sweep deletes has been idle for longer than the timeout
\* when it is deleted.
C24_SweepRemovesExactlyIdle ==
    /\ \A w \in Workers : workers[w].pc # "raised"
    /\ \A i \in 1..Len(executions) : executions[i].idle

\* C25: the sweep never removes a session while a turn on that session is in
\* progress, so a turn never goes on with a session object that the dict no
\* longer holds: no sweep deletes a session that another thread's call has
\* looked up, created or fetched, the session a call has looked up is there to
\* fetch, and the object a call appends to is the one in the dict.
C25_NoTurnOnRemovedSession ==
    /\ \A i \in 1..Len(executions) : ~executions[i].in_turn
    /\ \A w \in Workers :
          /\ workers[w].pc \notin {"missing", "lost"}
          /\ workers[w].pc = "append" => HeldInDict(w)

-----------------------------------------------------------------------------
(* OrderSpec: validate_action on one action after another, for one user,   *)
(* against the counter store the earlier validations left.                 *)

MaxOrdered == 4          \* OrderSpec: validations in a run

\* Actions that fail at each stage, and actions that pass
OrderedActions ==
    { ToolAction("browser_click", NoParams, "none"),
      ToolAction("system_command", NoParams, "none"),
      ToolAction("system_command", [command |-> StrV(S_query)], "none"),
      ToolAction("web_search", NoParams, "none"),
      ToolAction("web_search", [query |-> StrV(S_query), max_results |-> IntV(100)], "none"),
      ToolAction("web_search", [query |-> StrV(S_query)], "none"),
      ToolAction("file_write", [path |-> StrV(S_etc_passwd)], "none"),
      ToolAction("file_write", [path |-> StrV(S_etc_passwd), content |-> StrV(S_query)], "none"),
      ToolAction("file_write", [path |-> StrV(S_tmp_file), content |-> StrV(S_query)], "none"),
      ToolAction("file_write", [path |-> StrV(S_ws_file), content |-> StrV(S_query)], "none"),
      ToolAction("file_read", [path |-> StrV(S_tmp_file)], "none") }

OInit ==
    /\ now = 0
    /\ conversations = <<>>
    /\ store = <<>>
    /\ redis_client \in {"connected", "none"}
    /\ last = NoTurn
    /\ workers = NoWorkers
    /\ executions = <<>>
    /\ v_in = 0
    /\ v_out = <<>>

OValidateWith(action, r) ==
    /\ v_out' = << [input |-> action, ok |-> r.ok, error |-> r.error,
                    action |-> r.action, raised |-> r.raised, before |-> store] >>
    /\ store' = r.store

\* is_valid, error = self.tool_router.validate_action(action, user_id)
OValidate ==
    /\ v_in < MaxOrdered
    /\ v_in' = v_in + 1
    /\ \E action \in OrderedActions :
         OValidateWith(action, validate_action(action, "u1", store, redis_client, FALSE))
    /\ UNCHANGED <<now, conversations, redis_client, last, workers, executions>>

ONext == OValidate

OrderSpec == OInit /\ [][ONext]_vars

-----------------------------------------------------------------------------
(* Claims on the order of the validator's stages                           *)

\* What each stage says of the action validated last, taken by itself on the
\* store as it was before the call: None, or the reason of its rejection
ExistenceSays(v) ==
    IF v.input.tool_name \notin DOMAIN tool_configs
    THEN Some(Reject("not_found", v.input.tool_name, ""))
    ELSE IF ~tool_configs[v.input.tool_name].enabled
    THEN Some(Reject("disabled", v.input.tool_name, ""))
    ELSE None

ParametersSay(v) == validate_parameters(v.input, tool_configs[v.input.tool_name])

RateLimitSays(v) ==
    check_rate_limit_stage(v.before, redis_client, FALSE, v.input.tool_name, "u1",
                           tool_configs[v.input.tool_name]).error

PolicySays(v) ==
    validate_security_policies(v.input, tool_configs[v.input.tool_name]).error

\* The reason of the first stage that rejects, None if none does
FirstFailing(v) ==
    IF ExistenceSays(v) # None THEN ExistenceSays(v)
    ELSE IF ParametersSay(v) # None THEN ParametersSay(v)
    ELSE IF RateLimitSays(v) # None THEN RateLimitSays(v)
    ELSE PolicySays(v)

\* C31: validate_action returns the reason of the first stage that rejects, in
\* the order existence/enabled, parameters, rate limit, allow/block policy
\* (accepting when none rejects), and an action rejected for an unknown or
\* disabled tool or for an invalid parameter leaves every rate-limit counter
\* as it was.
C31_FirstFailingStage ==
    v_out # <<>> =>
        /\ ~v_out[1].raised
        /\ v_out[1].error = FirstFailing(v_out[1])
        /\ v_out[1].ok = (FirstFailing(v_out[1]) = None)
        /\ (ExistenceSays(v_out[1]) # None \/ ParametersSay(v_out[1]) # None) =>
              store = v_out[1].before

\* A web_search without its query, validated when the user's web_search
\* counter is at its limit: rejected for the parameter, the counter untouched
C31_Witness ==
    /\ v_out # <<>>
    /\ v_out[1].input.tool_name = "web_search"
    /\ ParametersSay(v_out[1]) # None
    /\ RateLimitSays(v_out[1]) # None
    /\ v_out[1].error = ParametersSay(v_out[1])
    /\ store = v_out[1].before

-----------------------------------------------------------------------------
(* Claims on late and empty confirmations                                  *)

\* The call recorded in last found a plan that had been parked for longer than
\* the pending window
LateTurn ==
    /\ last # NoTurn
    /\ last.op \in {"ConfirmAction", "ProcessRequest"}
    /\ last.slot_before # None
    /\ now - ParkedAt(last.slot_before) > pending_window

\* C32: a plan is not dispatched more than 5 minutes after it was parked.  A
\* ConfirmAction that comes later finds nothing pending, sends nothing and
\* leaves the slot empty; a ProcessRequest that comes later, an affirmative
\* reply included, is handled as a new utterance: it is answered directly or
\* planned, it sends nothing but actions of the plan made on this turn, and the
\* slot is empty afterwards or holds the plan parked on this turn.
C32_NoLateDispatch ==
    LateTurn =>
        IF last.op = "ConfirmAction"
        THEN /\ last.response.response = "no_pending"
             /\ ~last.response.success
             /\ last.dispatched = <<>>
             /\ SlotNow = None
        ELSE /\ last.response.response \notin {"cancelled", "reprompt"}
             /\ last.plan = None =>
                   /\ last.dispatched = <<>>
                   /\ last.response.response \in {"clarification", "conversation", "error"}
             /\ last.plan # None =>
                   /\ Len(last.dispatched) <= Len(last.plan[1].actions)
                   /\ \A i \in 1..Len(last.dispatched) :
                         last.dispatched[i].action = last.plan[1].actions[i]
             /\ SlotNow # None =>
                   /\ ParkedAt(SlotNow) = now
                   /\ last.response.response = "confirmation_prompt"
                   /\ ParkedActions(SlotNow) = last.plan[1].actions

\* "yes" 301 seconds after a file_write was parked: the turn plans anew and
\* sends the web search of the new plan
C32_Witness ==
    /\ LateTurn
    /\ last.op = "ProcessRequest"
    /\ last.input = T_yes
    /\ now - ParkedAt(last.slot_before) = pending_window + 1
    /\ ParkedActions(last.slot_before)[1].tool_name = "file_write"
    /\ last.plan # None
    /\ Len(last.dispatched) = 1
    /\ last.dispatched[1].action.tool_name = "web_search"
    /\ SlotNow = None

\* C33: whenever get_pending_confirmation returns none for a session the
\* manager holds, the pending slot of that session is empty afterwards, also
\* when the stored timestamp or plan data cannot be read back.
C33_NoneLeavesSlotEmpty ==
    (/\ Called("get_pending_confirmation")
     /\ last.session_id \in DOMAIN last.before
     /\ last.result = None) =>
        PendingIn(conversations, last.session_id) = None

-----------------------------------------------------------------------------
(* AnswerSpec: create_plan on an answer of the model whose proposals carry *)
(* every kind of confirmation level, for an intent of some confidence      *)

MaxAnswered == 6         \* AnswerSpec: actions the model proposes in one answer

\* A proposal declares NONE or HARD, declares no level, declares a level that
\* is no ConfirmationLevel, or names a tool that is no ToolName
AnswerPool ==
    { RawAction("web_search", [query |-> StrV(S_query)], Some("none")),
      RawAction("file_write", [path |-> StrV(S_ws_file), content |-> StrV(S_query)],
                Some("hard")),
      RawAction("web_search", [query |-> StrV(S_query)], None),
      RawAction("file_read", [path |-> StrV(S_ws_file)], Some("urgent")),
      RawAction("rm_rf", NoParams, Some("none")) }

AnswerProposals == UNION { [1..n -> AnswerPool] : n \in 0..MaxAnswered }

\* intent.confidence: the rule-based classifier's default, and the same
\* lowered for an ambiguous match (* 0.7)
IntentConfidences == {PlanIntentConfidence, (PlanIntentConfidence * 7) \div 10}

AInit ==
    /\ now = 0
    /\ conversations = <<>>
    /\ store = <<>>
    /\ redis_client = "none"
    /\ last = NoTurn
    /\ workers = NoWorkers
    /\ executions = <<>>
    /\ v_in \in [actions_data : AnswerProposals, needs_confirmation : BOOLEAN,
                 failed : BOOLEAN, intent_confidence : IntentConfidences]
    /\ v_out = <<>>

\* plan = self.planner.create_plan(user_input, intent, context)
ACreatePlan ==
    /\ v_out = <<>>
    /\ v_out' = << [plan |-> create_plan(v_in.actions_data, v_in.needs_confirmation,
                                         v_in.failed),
                    confidence |-> create_plan_confidence(v_in.actions_data,
                                       v_in.needs_confirmation, v_in.failed,
                                       v_in.intent_confidence)] >>
    /\ UNCHANGED <<now, conversations, store, redis_client, last, workers, executions, v_in>>

ANext == ACreatePlan

AnswerSpec == AInit /\ [][ANext]_vars

-----------------------------------------------------------------------------
(* Claims on the plan create_plan builds                                   *)

\* create_plan has returned
Planned == v_in # <<>> /\ v_out # <<>>

\* The level a retained proposal's action carries: the declared level if it is
\* a ConfirmationLevel, SOFT otherwise
CarriedLevel(action_data) ==
    IF action_data.level # None /\ action_data.level[1] \in ConfirmationLevels
    THEN action_data.level[1] ELSE "soft"

\* The positions of the proposals that are retained (the first max_actions)
\* and name a known tool
RetainedKnown ==
    {i \in 1..Min(max_actions, Len(v_in.actions_data)) :
        v_in.actions_data[i].tool \in ToolNames}

\* An action of the plan is SOFT or HARD
SomeActionAsks ==
    \E i \in 1..Len(v_out[1].plan.actions) :
       v_out[1].plan.actions[i].confirmation_level \in {"soft", "hard"}

\* C34 as stated: the plan create_plan returns has needs_user_confirmation set
\* exactly when the model signalled a need for confirmation or an action of
\* the plan is SOFT or HARD.
C34_FlagIffSignalOrLevel ==
    Planned =>
        (v_out[1].plan.needs_user_confirmation
            <=> (v_in.needs_confirmation \/ SomeActionAsks))

\* C34 amended: when create_plan does not fail, the flag is set exactly when
\* the model signalled a need for confirmation or an action of the plan is SOFT
\* or HARD (declared so, or SOFT because its level was absent or unknown); the
\* empty plan returned on a failure has the flag unset whatever the model
\* signalled.
C34_FlagIffSignalOrLevelUnlessFailed ==
    Planned =>
        IF v_in.failed
        THEN ~v_out[1].plan.needs_user_confirmation
        ELSE /\ v_out[1].plan.needs_user_confirmation
                   <=> (v_in.needs_confirmation \/ SomeActionAsks)
             /\ SomeActionAsks
                   <=> \E i \in RetainedKnown :
                          CarriedLevel(v_in.actions_data[i]) \in {"soft", "hard"}

\* The model signalled nothing and declared no level for its one web search:
\* the action is SOFT and the flag is set
C34_Witness ==
    /\ Planned
    /\ ~v_in.failed
    /\ ~v_in.needs_confirmation
    /\ Len(v_in.actions_data) = 1
    /\ v_in.actions_data[1].tool = "web_search"
    /\ v_in.actions_data[1].level = None
    /\ v_out[1].plan.needs_user_confirmation

\* The confidence of the returned plan is intent.confidence times 0.9 at more
\* than 3 actions, times further/100 at more than 4, times max(0.7, 1 - 0.1 h)
\* at h >= 1 HARD actions; it lies in [0, 1] and is 0 for a plan without actions
\* (both sides of the product are scaled to ten-millionths)
ConfidenceDiscounted(further) ==
    LET actions == v_out[1].plan.actions
        h       == HardCount(actions)
        count3  == IF Len(actions) > 3 THEN 9 ELSE 10
        count4  == IF Len(actions) > 4 THEN further ELSE 100
        hard    == IF h >= 1 THEN Max(7, 10 - h) ELSE 10
    IN  /\ v_out[1].confidence \in 0..ConfidenceUnit
        /\ IF actions = <<>> THEN v_out[1].confidence = 0
           ELSE v_out[1].confidence * 10
                    = (v_in.intent_confidence \div 1000) * count3 * count4 * hard

\* C35: the confidence of a plan with more than 4 actions carries a further
\* 5% discount (0.95) on top of the 10% discount for more than 3 actions, and
\* the discount max(0.7, 1 - 0.1 h) for h >= 1 HARD actions; it lies in [0, 1],
\* and a plan without actions has confidence 0.
C35_FurtherFivePercent == Planned => ConfidenceDiscounted(95)

\* What _calculate_confidence computes: the same with 0.85 at more than 4 actions
ConfidenceAsComputed == Planned => ConfidenceDiscounted(85)

\* A plan of five actions, none of them HARD
FiveActionPlan ==
    /\ Planned
    /\ Len(v_out[1].plan.actions) = max_actions
    /\ HardCount(v_out[1].plan.actions) = 0

\* The position of the k-th retained proposal that names a known tool
NthKnown(k) ==
    CHOOSE i \in RetainedKnown : Cardinality({j \in RetainedKnown : j < i}) = k - 1

-----------------------------------------------------------------------------
(* Claims on ConfirmAction with nothing pending                            *)

\* At the time of the call, the session of the call held no pending
\* confirmation that had not expired: the manager did not hold the session,
\* its slot was empty (nothing parked, or the plan consumed), or the plan had
\* been parked for longer than the pending window
NothingPendingAtCall ==
    \/ PendingIn(last.before, last.session_id) = None
    \/ last.at - ParkedAt(PendingIn(last.before, last.session_id)) > pending_window

\* C37: ConfirmAction on a session with no unexpired pending confirmation
\* answers success = false ("No pending actions to confirm."), sends no
\* action, adds no message to any history and creates no session, whether
\* confirmed is true or false; all it may change is the slot of the session,
\* which is empty afterwards if the snapshot could be read.
C37_NothingToConfirm ==
    (Called("ConfirmAction") /\ NothingPendingAtCall) =>
        /\ ~last.result[1].response.success
        /\ last.result[1].response
               = Response(FALSE, "no_pending", <<>>, None, <<>>, FALSE)
        /\ last.result[1].dispatched = <<>>
        /\ DOMAIN conversations = DOMAIN last.before
        /\ \A s \in DOMAIN conversations :
              /\ conversations[s].messages = last.before[s].messages
              /\ s # last.session_id => conversations[s] = last.before[s]
        /\ \/ conversations = last.before
           \/ /\ PendingIn(last.before, last.session_id) # None
              /\ conversations
                     = [last.before EXCEPT
                           ![last.session_id] = clear_pending_confirmations(@)]

\* ConfirmAction(confirmed = true) on a session whose plan was parked longer
\* ago than the pending window: nothing is sent and the slot is cleared
C37_Witness ==
    /\ Called("ConfirmAction")
    /\ last.result[1].confirmed
    /\ PendingIn(last.before, last.session_id) # None
    /\ last.at - ParkedAt(PendingIn(last.before, last.session_id)) > pending_window
    /\ last.result[1].dispatched = <<>>
    /\ ~last.result[1].response.success
    /\ PendingIn(conversations, last.session_id) = None

\* ConfirmAction on a session the manager does not hold, and on a session
\* whose plan an earlier ConfirmAction consumed
ConfirmUnknownSession ==
    /\ Called("ConfirmAction")
    /\ last.session_id \notin DOMAIN last.before
    /\ last.session_id \notin DOMAIN conversations
    /\ ~last.result[1].response.success

-----------------------------------------------------------------------------
(* ExpirySpec: the worker threads of LimiterSpec call check_rate_limit      *)
(* while time passes and the store drops the keys whose TTL has run out     *)

MaxPeriods == 2          \* ExpirySpec: the clock stops after this many periods

\* Time passes by half a period; keys whose TTL has run out are gone
XTick ==
    /\ \E d \in {RatePeriodOf(v_in.tool_name) \div 2} :
         /\ d > 0
         /\ now + d <= MaxPeriods * RatePeriodOf(v_in.tool_name)
         /\ now' = now + d
         /\ store' = Expire(store, now + d)
    /\ UNCHANGED <<conversations, redis_client, last, workers, executions, v_in, v_out>>

XNext == (\E w \in Workers : LGet(w) \/ LDecide(w)) \/ XTick

ExpirySpec == LInit /\ [][XNext]_vars

\* C38: every counter key in the store carries a TTL, of at most the period
\* of its limit, whatever the interleaving of check_rate_limit calls and key
\* expiry; so a counter that rejects is gone one period later at the latest.
C38_EveryCounterExpires ==
    \A key \in DOMAIN store :
       /\ store[key].expires_at # NoExpiry
       /\ store[key].expires_at - now \in 1..RatePeriodOf(key[2])

\* A counter without a TTL stands at its limit: every later call is rejected
RejectsForever ==
    /\ LKey \in DOMAIN store
    /\ store[LKey].expires_at = NoExpiry
    /\ store[LKey].count >= RateLimitOf(v_in.tool_name)

-----------------------------------------------------------------------------
(* QuotaSpec: ProcessRequest and ConfirmAction calls on one session, with   *)
(* plans that are executed, parked, or aborted at validation, and replies   *)
(* to a confirmation prompt                                                 *)

MaxTurns == 3            \* QuotaSpec: calls and clock steps in one run

T_nay == <<"N", "a", "y">>

\* Replies and utterances: "what", "yes", "No " and "Nay" (which holds the
\* affirmative keyword "y" and the negative keyword "n")
QuotaTexts == {T_what, T_yes, T_No, T_nay}

\* What the model proposes: a web search that runs at once; a file write that
\* is parked; a web search and a write to a blocked path; two file writes; a
\* web search without its query
QuotaProposals ==
    { << RawAction("web_search", [query |-> StrV(S_query)], Some("none")) >>,
      << RawAction("file_write", [path |-> StrV(S_ws_file), content |-> StrV(S_query)],
                   Some("none")) >>,
      << RawAction("web_search", [query |-> StrV(S_query)], Some("none")),
         RawAction("file_write", [path |-> StrV(S_etc_passwd), content |-> StrV(S_query)],
                   Some("none")) >>,
      << RawAction("file_write", [path |-> StrV(S_ws_file), content |-> StrV(S_query)],
                   Some("none")),
         RawAction("file_write", [path |-> StrV(S_ws_file), content |-> StrV(S_query)],
                   Some("none")) >>,
      << RawAction("web_search", NoParams, Some("none")) >> }

QInit ==
    /\ now = 0
    /\ conversations = <<>>
    /\ store = <<>>
    /\ redis_client \in {"connected", "none"}
    /\ last = NoTurn
    /\ workers = NoWorkers
    /\ executions = <<>>
    /\ v_in = <<>>
    /\ v_out = 0

\* A handler has run: the state it leaves and the record of the call
QFinish(op, input, fault, turn) ==
    /\ v_out < MaxTurns
    /\ v_out' = v_out + 1
    /\ conversations' = turn.convs
    /\ store' = turn.store
    /\ last' = [op |-> op, session_id |-> TSession, input |-> input, fault |-> fault,
                at |-> now, store_before |-> store,
                slot_before |-> Slot(conversations, TSession),
                dispatched |-> turn.dispatched, response |-> turn.response,
                plan |-> turn.plan, raised |-> turn.raised,
                validation_errors |-> turn.validation_errors]
    /\ UNCHANGED <<now, redis_client, workers, executions, v_in>>

\* ProcessRequest; a store operation of the rate limiter may raise
QProcessRequest ==
    \E user_input \in QuotaTexts, actions_data \in QuotaProposals, fault \in BOOLEAN :
       /\ fault => redis_client = "connected"
       /\ QFinish("ProcessRequest", user_input, fault,
                  process_request(conversations, store, redis_client, TSession, TUser,
                                  user_input, "execute", actions_data, FALSE, FALSE,
                                  fault, SinkOk))

QConfirmAction ==
    \E confirmed \in BOOLEAN :
       QFinish("ConfirmAction", confirmed, FALSE,
               confirm_action(conversations, store, TSession, TUser, confirmed, SinkOk))

\* Time passes between two calls; counters whose TTL has run out are gone
QTick ==
    /\ v_out < MaxTurns
    /\ v_out' = v_out + 1
    /\ \E d \in {RatePeriodOf("file_write")} :
         /\ now' = now + d
         /\ store' = Expire(store, now + d)
    /\ UNCHANGED <<conversations, redis_client, last, workers, executions, v_in>>

QNext == QProcessRequest \/ QConfirmAction \/ QTick

QuotaSpec == QInit /\ [][QNext]_vars

-----------------------------------------------------------------------------
(* Claims on where quota is consumed                                       *)

Counted(st, key) == IF key \in DOMAIN st THEN st[key].count ELSE 0

\* The rejections that come before the rate-limit stage
EarlyKinds ==
    {"not_found", "disabled", "missing_required", "type_string", "type_integer",
     "type_boolean", "enum", "min", "max", "pattern"}

\* A call has returned and no time has passed since
Returned == last # NoTurn /\ last.at = now

\* The call recorded in last validated a plan
ValidatedPlan ==
    /\ Returned
    /\ last.op = "ProcessRequest"
    /\ last.plan # None
    /\ ~last.raised

\* Of the validate_action calls of the turn on actions of the tool, those that
\* passed the rate-limit stage: all but the ones rejected before it or by it
PassedRateStage(tool) ==
    Cardinality({i \in 1..Len(last.plan[1].actions) :
                    last.plan[1].actions[i].tool_name = tool})
    - Cardinality({j \in 1..Len(last.validation_errors) :
                      /\ last.validation_errors[j].tool = tool
                      /\ last.validation_errors[j].error.kind
                             \in EarlyKinds \cup {"rate_limit"}})

\* What the call added to the counter of the tool
AddedTo(tool) ==
    Counted(store, RateKey(TUser, tool)) - Counted(last.store_before, RateKey(TUser, tool))

\* C39 as stated: each validate_action that passes the rate-limit stage adds
\* one to the counter of its tool, whatever becomes of the action and its plan
\* afterwards, and nothing else changes a counter: a reply to a confirmation
\* prompt and a ConfirmAction, executing the parked plan or not, leave the
\* counter store as it was.
C39_QuotaAtValidationOnly ==
    Returned =>
        IF ValidatedPlan
        THEN \A tool \in RatedTools : AddedTo(tool) = PassedRateStage(tool)
        ELSE last.raised \/ store = last.store_before

\* C39 amended: the same when the limiter reaches the counter store; when the
\* store is not connected or its operation raises, the rate-limit stage passes
\* every action and counts none.
C39_QuotaAtValidationOnlyIfStoreAnswers ==
    Returned =>
        IF ValidatedPlan /\ redis_client = "connected" /\ ~last.fault
        THEN /\ \A tool \in RatedTools : AddedTo(tool) = PassedRateStage(tool)
             /\ DOMAIN store = DOMAIN last.store_before
                                  \cup {RateKey(TUser, tool) : tool \in
                                           {t \in RatedTools : PassedRateStage(t) > 0}}
        ELSE IF ValidatedPlan
        THEN /\ store = last.store_before
             /\ \A j \in 1..Len(last.validation_errors) :
                   last.validation_errors[j].error.kind # "rate_limit"
        ELSE last.raised \/ store = last.store_before

\* A web search and a write to /etc/passwd: the plan is aborted because the
\* path is blocked, and both calls have been counted
C39_Witness ==
    /\ ValidatedPlan
    /\ redis_client = "connected"
    /\ last.response.response = "error_response"
    /\ Len(last.validation_errors) = 1
    /\ last.validation_errors[1].tool = "file_write"
    /\ last.validation_errors[1].error.kind = "blocked"
    /\ last.dispatched = <<>>
    /\ AddedTo("file_write") = 1
    /\ AddedTo("web_search") = 1

\* A parked file write is executed by ConfirmAction, and is declined, with
\* the counter that its validation left
ConfirmedKeepsCount ==
    /\ Returned
    /\ last.op = "ConfirmAction"
    /\ last.slot_before # None
    /\ last.dispatched # <<>>
    /\ Counted(store, RateKey(TUser, "file_write")) = 1
    /\ store = last.store_before

DeclinedKeepsCount ==
    /\ Returned
    /\ last.op = "ConfirmAction"
    /\ last.response.response = "cancelled"
    /\ Counted(store, RateKey(TUser, "file_write")) = 1
    /\ store = last.store_before

-----------------------------------------------------------------------------
(* Claims on the keywords of a confirmation reply                          *)

\* The call recorded in last was a ProcessRequest that found a plan pending
RepliedToPrompt ==
    /\ Returned
    /\ last.op = "ProcessRequest"
    /\ last.slot_before # None
    /\ Unexpired(last.slot_before)

\* C40: a reply that holds an affirmative keyword as a substring of its
\* lowercased text is affirmative, whether or not it also holds a negative
\* keyword: the parked plan is executed and the slot cleared.  The plan is
\* cancelled only when the reply holds a negative keyword and no affirmative
\* one; a reply that holds neither is asked again.
C40_AffirmativeFirst ==
    RepliedToPrompt =>
        IF HoldsWord(affirmative, last.input)
        THEN /\ last.response.response = "synthesized"
             /\ Len(last.dispatched) = Len(ParkedActions(last.slot_before))
             /\ \A i \in 1..Len(last.dispatched) :
                   last.dispatched[i].action = ParkedActions(last.slot_before)[i]
             /\ SlotNow = None
        ELSE IF HoldsWord(negative, last.input)
        THEN /\ last.response.response = "cancelled"
             /\ last.dispatched = <<>>
             /\ SlotNow = None
        ELSE /\ last.response.response = "reprompt"
             /\ last.dispatched = <<>>
             /\ SlotNow = last.slot_before

\* "Nay" holds the negative keyword "n" and the affirmative keyword "y": the
\* parked file write is sent
C40_Witness ==
    /\ RepliedToPrompt
    /\ last.input = T_nay
    /\ HoldsWord(negative, last.input)
    /\ HoldsWord(affirmative, last.input)
    /\ Len(last.dispatched) = 1
    /\ last.dispatched[1].action.tool_name = "file_write"
    /\ last.response.response = "synthesized"

\* "No " holds a negative keyword only: the parked plan is cancelled
NegativeOnly ==
    /\ RepliedToPrompt
    /\ last.input = T_No
    /\ ~HoldsWord(affirmative, last.input)
    /\ last.response.response = "cancelled"

====
